---- MODULE Spec2Model ----
(***************************************************************************)
(* Connection lifecycle engine of the deno_signalr client.                 *)
(*                                                                         *)
(* Client  : src/unnamed/part_001, lines 798-1346 (class Client)           *)
(* Hub     : src/src/classes/Hub.ts (the module Client imports as          *)
(*           "./Hub.ts")                                                   *)
(*                                                                         *)
(* The client is driven by a single-threaded event loop.  Every action of  *)
(* this module is one run-to-completion callback: an application call, a   *)
(* transport event, the completion of an HTTP exchange, or a timer firing. *)
(* An "await fetch(...)" splits a method in two actions; the request in    *)
(* flight is kept in negotiateInFlight / startInFlight / abortInFlight.    *)
(* "await createSocketConnection(...)" splits _connect the same way; the   *)
(* calls that wait for their handle are kept in connectInFlight.           *)
(***************************************************************************)
EXTENDS Integers, Sequences, FiniteSets, TLC

(***************************************************************************)
(* Bounds of the exploration.                                              *)
(***************************************************************************)
MaxStarts     == 2   \* start() calls made by the application
MaxEnds       == 1   \* end() calls made by the application
MaxNegotiates == 2   \* negotiate requests issued (application + restarts)
MaxSockets    == 3   \* transport handles ever created
MaxCalls      == 4   \* call()/invoke() operations
MaxFrameId    == 1   \* largest I of an inbound response frame
MaxOn         == 2   \* on() registrations
MaxTicks      == 2   \* steps of the clock

(***************************************************************************)
(* Program constants.                                                      *)
(***************************************************************************)
DefaultCallTimeout       == 5000   \* Client.callTimeout
DefaultReconnectDelay    == 5000   \* Client.reconnectDelayTime
DefaultKeepAliveTimeout  == 5000   \* Client._keepAliveTimeout
DefaultBeatInterval      == 5000   \* Client._beatInterval
CloseCallTimeout         == 1000   \* _callTimeout set by onclose
MsPerSecond              == 1000   \* KeepAliveTimeout (s) -> ms
BeatDivisor              == 4      \* _beatInterval = _keepAliveTimeout / 4

(***************************************************************************)
(* The clock advances by the shortest interval the client measures: a      *)
(* KeepAliveTimeout of one second.                                         *)
(***************************************************************************)
TickMs == MsPerSecond

(***************************************************************************)
(* Strings are sequences of characters so that prefix tests are computed.  *)
(***************************************************************************)
StartsWith(s, p) == Len(s) >= Len(p) /\ SubSeq(s, 1, Len(p)) = p

HttpPrefix  == <<"h", "t", "t", "p", ":">>
HttpsPrefix == <<"h", "t", "t", "p", "s", ":">>
UrlEmpty    == << >>
UrlFtp      == <<"f", "t", "p", ":", "/", "/", "x">>
UrlHttp     == <<"h", "t", "t", "p", ":", "/", "/", "x">>
UrlHttps    == <<"h", "t", "t", "p", "s", ":", "/", "/", "x">>

(***************************************************************************)
(* The hub list handed to the constructor: an array of names, or a value   *)
(* that is not an array.  depth counts the {name: ...} wrappings applied.  *)
(***************************************************************************)
HubList(isArray, names) == [isArray |-> isArray, names |-> names, depth |-> 0]

Configs ==
    { [url |-> UrlEmpty, hubs |-> HubList(TRUE, <<"Hub">>)],
      [url |-> UrlFtp,   hubs |-> HubList(TRUE, <<"Hub">>)],
      [url |-> UrlHttp,  hubs |-> HubList(FALSE, << >>)],
      [url |-> UrlHttp,  hubs |-> HubList(TRUE, << >>)],
      [url |-> UrlHttps, hubs |-> HubList(TRUE, <<"Hub">>)] }

MainConfig == [url |-> UrlHttps, hubs |-> HubList(TRUE, <<"Hub">>)]

(***************************************************************************)
(* The exploration is the union of several families of runs.  Each family     *)
(* bounds how often the application and the environment act; lim keeps     *)
(* the bounds of the run and never changes.                                *)
(*   validate  every constructor input, one handshake                      *)
(*   sessions  start() called again while a session is in progress         *)
(*   recovery  one start(), reconnections, end()                           *)
(*   heartbeat one handshake, one reconnection, the clock                  *)
(*   push      one handshake, handlers and pushes                          *)
(*   hub       one handshake, calls and responses, end()                   *)
(*   reopen    one handshake, one reconnection, calls and responses        *)
(*   keepalive one handshake, larger KeepAliveTimeout values               *)
(*   collide   one handshake whose negotiate succeeds, more calls          *)
(***************************************************************************)
Limits(name, cfgs, st, en, ne, so, ca, on, ti) ==
    [name |-> name, configs |-> cfgs, starts |-> st, ends |-> en,
     negotiates |-> ne, sockets |-> so, calls |-> ca, invokes |-> ca,
     ons |-> on, ticks |-> ti]

\* runs in which the application uses call() only
CallsOnly(sc) == [sc EXCEPT !.invokes = 0]

Scenarios ==
    { Limits("validate", Configs, MaxStarts, 0, MaxNegotiates - 1, MaxSockets - 2, 0, 0, 0),
      Limits("sessions", {MainConfig}, MaxStarts, 0, MaxNegotiates, MaxSockets - 1, 0, 0, 0),
      Limits("recovery", {MainConfig}, MaxStarts - 1, MaxEnds, MaxNegotiates, MaxSockets, 0, 0, 0),
      Limits("heartbeat", {MainConfig}, MaxStarts - 1, 0, MaxNegotiates - 1, MaxSockets - 1, 0, 0, MaxTicks),
      Limits("push", {MainConfig}, MaxStarts - 1, 0, MaxNegotiates - 1, MaxSockets - 2, 0, MaxOn, 0),
      Limits("hub", {MainConfig}, MaxStarts - 1, MaxEnds, MaxNegotiates - 1, MaxSockets - 2, MaxCalls - 2, 0, 0),
      Limits("reopen", {MainConfig}, MaxStarts - 1, 0, MaxNegotiates - 1, MaxSockets - 1, MaxCalls - 2, 0, 0),
      Limits("collide", {MainConfig}, MaxStarts - 1, 0, MaxNegotiates - 1, MaxSockets - 2, MaxCalls, 0, 0),
      Limits("keepalive", {MainConfig}, MaxStarts - 1, 0, MaxNegotiates - 1, MaxSockets - 2, 0, 0, 0) }

(***************************************************************************)
(* Events posted to the subscribers (Evt.post).                            *)
(***************************************************************************)
EvConnected       == [type |-> "connected",    data |-> "",     n |-> 0]
EvDisconnected(r) == [type |-> "disconnected", data |-> r,      n |-> 0]
EvReconnecting(k) == [type |-> "reconnecting", data |-> "",     n |-> k]
EvError(code)     == [type |-> "error",        data |-> code,   n |-> 0]

EventTypes == {"connected", "disconnected", "reconnecting", "error"}

(***************************************************************************)
(* The other things a callback does that the outside can see, recorded in  *)
(* the order the callback does them.                                       *)
(***************************************************************************)
FxState(st)        == [type |-> "state",        data |-> st,   n |-> 0]
FxRequest(op)      == [type |-> "request",      data |-> op,   n |-> 0]
FxConnect(h)       == [type |-> "connect",      data |-> "",   n |-> h]
FxHandle(h)        == [type |-> "handle",       data |-> "",   n |-> h]
FxClose(h)         == [type |-> "close",        data |-> "",   n |-> h]
FxSetTimeout(k, d) == [type |-> "setTimeout",   data |-> k,    n |-> d]
FxClearTimeout(k)  == [type |-> "clearTimeout", data |-> k,    n |-> 0]

(***************************************************************************)
(* Outcomes of the HTTP exchanges.  kind "net" is a rejected fetch, kind    *)
(* "text" a 200 answer whose body data.json() rejects (not JSON).          *)
(***************************************************************************)
HttpStatuses == {302, 401, 403, 500}

NegotiateBody(tws, tok, hasKA, ka) ==
    [TryWebSockets |-> tws, tokenIsString |-> tok,
     hasKeepAlive |-> hasKA, KeepAliveTimeout |-> ka]

NegotiateBodies ==
    { NegotiateBody(FALSE, TRUE, TRUE, 1),
      NegotiateBody(TRUE, TRUE, TRUE, 1),
      NegotiateBody(TRUE, TRUE, FALSE, 0),
      NegotiateBody(TRUE, FALSE, TRUE, 0) }

NoBody == NegotiateBody(FALSE, FALSE, FALSE, 0)

NegotiateResults ==
    { [kind |-> "net", status |-> 0, body |-> NoBody],
      [kind |-> "text", status |-> 200, body |-> NoBody] }
    \cup { [kind |-> "http", status |-> st, body |-> NoBody] : st \in HttpStatuses }
    \cup { [kind |-> "ok", status |-> 200, body |-> b] : b \in NegotiateBodies }

\* KeepAliveTimeout values (seconds) a server sends in the "keepalive" runs
KeepAliveSeconds == {2, 20}

KeepAliveResults ==
    { [kind |-> "ok", status |-> 200, body |-> NegotiateBody(TRUE, TRUE, TRUE, k)] :
          k \in KeepAliveSeconds }

\* the negotiate response of the "collide" runs
NegotiateOk ==
    { [kind |-> "ok", status |-> 200, body |-> NegotiateBody(TRUE, TRUE, FALSE, 0)] }

NegotiateResultsOf(sc) ==
    IF sc.name = "keepalive" THEN NegotiateResults \cup KeepAliveResults
    ELSE IF sc.name \in {"collide", "late", "settle"} THEN NegotiateOk
    ELSE NegotiateResults

ExchangeResults ==
    { [kind |-> "net", status |-> 0], [kind |-> "ok", status |-> 200] }
    \cup { [kind |-> "http", status |-> st] : st \in HttpStatuses }

\* the start exchange reads the body of a 200 answer as well
StartResults == ExchangeResults \cup { [kind |-> "text", status |-> 200] }

\* the start response of the "late" runs
StartOk == { [kind |-> "ok", status |-> 200] }

StartResultsOf(sc) == IF sc.name = "late" THEN StartOk ELSE StartResults

VARIABLES
    url,               \* Client.url
    hubNames,          \* Client._hubNames
    bound,             \* Client._bound
    state,             \* Client.connection.state
    token,             \* Client.connection.token (0: undefined)
    lastMessageAt,     \* Client.connection.lastMessageAt
    keepAlive,         \* Client._keepAlive
    keepAliveTimeout,  \* Client._keepAliveTimeout
    negotiated,        \* KeepAliveTimeout of the last negotiate body start() read
    beatInterval,      \* Client._beatInterval
    invocationId,      \* Client._invocationId
    callTimeoutOv,     \* Client._callTimeout
    reconnectCount,    \* Client._reconnectCount
    reconnectTimer,    \* Client._reconnectTimer (0: undefined)
    beatTimer,         \* Client._beatTimer (0: undefined)
    websocket,         \* Client._websocket (0: undefined)
    handlers,          \* Hub.handlers
    callbacks,         \* Hub.callbacks: invocation id -> index in calls (0: none)
    sockets,           \* every transport handle created so far
    timers,            \* the reconnect and heartbeat timers that are armed
    calls,             \* every call()/invoke() made so far
    negotiateInFlight, \* negotiate requests awaiting their response
    startInFlight,     \* handles whose onopen awaits the start exchange
    abortInFlight,     \* number of abort requests awaiting their response
    connectInFlight,   \* _connect calls awaiting their handle: token and caller
    starts,            \* start() calls made by the application
    ends,              \* end() calls made by the application
    negotiates,        \* negotiate requests issued so far
    opens,             \* transport open events so far
    now,               \* the clock (Date.now())
    lim,               \* the bounds of this run
    out                \* what the last callback did: events, requests, ...

vars == << url, hubNames, bound, state, token, lastMessageAt, keepAlive,
           keepAliveTimeout, negotiated, beatInterval, invocationId, callTimeoutOv,
           reconnectCount, reconnectTimer, beatTimer, websocket, handlers,
           callbacks, sockets, timers, calls, negotiateInFlight,
           startInFlight, abortInFlight, connectInFlight, starts, ends,
           negotiates, opens, now, lim, out >>

(***************************************************************************)
(* The callbacks are written as functions from a snapshot of the state to  *)
(* the snapshot they leave, so that one method can call another.           *)
(***************************************************************************)
Cur ==
    [ url |-> url, hubNames |-> hubNames, bound |-> bound, state |-> state,
      token |-> token, lastMessageAt |-> lastMessageAt,
      keepAlive |-> keepAlive, keepAliveTimeout |-> keepAliveTimeout,
      negotiated |-> negotiated,
      beatInterval |-> beatInterval, invocationId |-> invocationId,
      callTimeoutOv |-> callTimeoutOv, reconnectCount |-> reconnectCount,
      reconnectTimer |-> reconnectTimer, beatTimer |-> beatTimer,
      websocket |-> websocket, handlers |-> handlers,
      callbacks |-> callbacks, sockets |-> sockets, timers |-> timers,
      calls |-> calls, negotiateInFlight |-> negotiateInFlight,
      startInFlight |-> startInFlight, abortInFlight |-> abortInFlight,
      connectInFlight |-> connectInFlight,
      starts |-> starts, ends |-> ends, negotiates |-> negotiates,
      opens |-> opens, now |-> now, lim |-> lim, out |-> out,
      pre |-> state ]

Commit(r) ==
    /\ url' = r.url
    /\ hubNames' = r.hubNames
    /\ bound' = r.bound
    /\ state' = r.state
    /\ token' = r.token
    /\ lastMessageAt' = r.lastMessageAt
    /\ keepAlive' = r.keepAlive
    /\ keepAliveTimeout' = r.keepAliveTimeout
    /\ negotiated' = r.negotiated
    /\ beatInterval' = r.beatInterval
    /\ invocationId' = r.invocationId
    /\ callTimeoutOv' = r.callTimeoutOv
    /\ reconnectCount' = r.reconnectCount
    /\ reconnectTimer' = r.reconnectTimer
    /\ beatTimer' = r.beatTimer
    /\ websocket' = r.websocket
    /\ handlers' = r.handlers
    /\ callbacks' = r.callbacks
    /\ sockets' = r.sockets
    /\ timers' = r.timers
    /\ calls' = r.calls
    /\ negotiateInFlight' = r.negotiateInFlight
    /\ startInFlight' = r.startInFlight
    /\ abortInFlight' = r.abortInFlight
    /\ connectInFlight' = r.connectInFlight
    /\ starts' = r.starts
    /\ ends' = r.ends
    /\ negotiates' = r.negotiates
    /\ opens' = r.opens
    /\ now' = r.now
    /\ lim' = r.lim
    /\ out' = r.out

(***************************************************************************)
(* out: what the callback that ran last was given and what it let out.     *)
(*   step      the callback                                                *)
(*   kind      the outcome it was given: of the negotiate or start         *)
(*             exchange, or of createSocketConnection ("" if none)         *)
(*   status    the HTTP status of the response it was given (0: none)      *)
(*   body      the negotiate body it was given (NoBody when none)          *)
(*   frame     the kind of frame it was given, id the I of that frame      *)
(*             (for a call timeout, id is the index of the call)           *)
(*   trace     the events posted and the other effects, in order           *)
(*   invoked   the push handlers invoked, in order, as <<callback, args>>  *)
(*   thrown    the exception that escaped the callback ("" if none)        *)
(*   debounced number of _reconnect calls that returned at the guard       *)
(* The snapshot also carries pre, connection.state when the callback       *)
(* began.                                                                  *)
(***************************************************************************)
NoOut(step) ==
    [step |-> step, kind |-> "", status |-> 0, body |-> NoBody, frame |-> "",
     id |-> 0,
     trace |-> << >>, invoked |-> << >>, thrown |-> "", debounced |-> 0]

Begin(step) == [Cur EXCEPT !.out = NoOut(step)]

fx(s, e) == [s EXCEPT !.out.trace = Append(@, e)]

post(s, ev) == fx(s, ev)

setState(s, st) == [fx(s, FxState(st)) EXCEPT !.state = st]

IsEvent(e) == e.type \in EventTypes

Events(o) == SelectSeq(o.trace, IsEvent)

(***************************************************************************)
(* Timers.  A timer that is armed is a record of timers; the handle the    *)
(* client keeps (reconnectTimer, beatTimer) is its id, which stays in the  *)
(* field after the timer has fired until the code overwrites it.           *)
(***************************************************************************)
TimerIds(s) == { t.id : t \in s.timers }

FreeTimerId(s) ==
    CHOOSE n \in 1..(Cardinality(s.timers) + 3) :
        /\ n \notin TimerIds(s) \cup {s.reconnectTimer, s.beatTimer}
        /\ \A m \in 1..(n - 1) :
               m \in TimerIds(s) \cup {s.reconnectTimer, s.beatTimer}

setTimeout(s, id, kind, restart, delay) ==
    [fx(s, FxSetTimeout(kind, delay)) EXCEPT !.timers = @ \cup
        { [id |-> id, kind |-> kind, restart |-> restart, delay |-> delay,
           by |-> s.out.step,
           drop |-> (s.out.step = "onclose" /\ s.pre = "connected")] }]

clearTimeout(s, id) ==
    [fx(s, FxClearTimeout(IF id = s.beatTimer THEN "beat" ELSE "reconnect"))
        EXCEPT !.timers = { t \in @ : t.id # id }]

ReconnectTimers(ts) == { t \in ts : t.kind = "reconnect" }
BeatTimers(ts)      == { t \in ts : t.kind = "beat" }

(***************************************************************************)
(* Client._clearReconnectTimer, Client._clearBeatTimer                     *)
(***************************************************************************)
clearReconnectTimer(s) ==
    IF s.reconnectTimer # 0
    THEN [clearTimeout(s, s.reconnectTimer) EXCEPT !.reconnectTimer = 0]
    ELSE s

clearBeatTimer(s) ==
    IF s.beatTimer # 0
    THEN [clearTimeout(s, s.beatTimer) EXCEPT !.beatTimer = 0]
    ELSE s

(***************************************************************************)
(* Client._markLastMessage                                                 *)
(***************************************************************************)
markLastMessage(s) == [s EXCEPT !.lastMessageAt = s.now]

(***************************************************************************)
(* Client._close: rebinds onclose, onmessage and onerror to no-ops (not    *)
(* onopen), closes the handle and drops the reference.                     *)
(***************************************************************************)
close(s) ==
    IF s.websocket # 0
    THEN [fx(s, FxClose(s.websocket)) EXCEPT
                   !.sockets[s.websocket].attached = FALSE,
                   !.sockets[s.websocket].readyState = "CLOSED",
                   !.websocket = 0]
    ELSE s

(***************************************************************************)
(* Client._reconnect                                                       *)
(***************************************************************************)
M_reconnect(s, restart) ==
    \* no guard: every request schedules a timer
    LET s1 == close(clearBeatTimer(s))
        id == FreeTimerId(s1)
    IN  [setTimeout(s1, id, "reconnect", restart, DefaultReconnectDelay)
            EXCEPT !.reconnectTimer = id]

reconnect(s, restart) ==
    IF s.reconnectTimer # 0 \/ s.state = "reconnecting"
    THEN [s EXCEPT !.out.debounced = @ + 1]
    ELSE LET s1 == close(clearBeatTimer(s))
             id == FreeTimerId(s1)
         IN  [setTimeout(s1, id, "reconnect", restart, DefaultReconnectDelay)
                 EXCEPT !.reconnectTimer = id]

(***************************************************************************)
(* Client._error: post the error, then the recovery of its code.           *)
(* code "undefined" is error.code of an exception that is not a            *)
(* SignalRHubError.                                                        *)
(***************************************************************************)
ErrorCodes ==
    { "invalidURL", "invalidProtocol", "noHub", "unsupportedWebsocket",
      "unauthorized", "connectLost", "negotiateError", "startError",
      "connectError", "socketError", "abortError" }

M_errorTable(s, code) ==
    \* connectError asks for a soft reconnect
    LET s1 == post(s, EvError(code))
    IN  IF code = "negotiateError"
        THEN reconnect(s1, TRUE)
        ELSE IF code = "startError" \/ code = "connectLost"
                   \/ code = "connectError"
             THEN reconnect(s1, FALSE)
             ELSE s1

M_errorLate(s, code) ==
    \* the recovery is triggered before the event is posted
    IF code = "negotiateError" \/ code = "connectError"
    THEN post(reconnect(s, TRUE), EvError(code))
    ELSE IF code = "startError" \/ code = "connectLost"
         THEN post(reconnect(s, FALSE), EvError(code))
         ELSE post(s, EvError(code))

error(s, code) ==
    LET s1 == post(s, EvError(code))
    IN  IF code = "negotiateError" \/ code = "connectError"
        THEN reconnect(s1, TRUE)
        ELSE IF code = "startError" \/ code = "connectLost"
             THEN reconnect(s1, FALSE)
             ELSE s1

(***************************************************************************)
(* Client._beat                                                            *)
(***************************************************************************)
beat(s) ==
    IF s.state = "connected"
    THEN IF s.now - s.lastMessageAt > s.keepAliveTimeout
         THEN error(setState(s, "disconnected"), "connectLost")
         ELSE LET id == FreeTimerId(s)
              IN  [setTimeout(s, id, "beat", FALSE, s.beatInterval)
                      EXCEPT !.beatTimer = id]
    ELSE s

(***************************************************************************)
(* Client._connect, up to the await of createSocketConnection: the URL is  *)
(* built with the token the client holds and the handle is asked for.  The *)
(* calls are answered in the order they were made, so the call recorded as *)
(* FxConnect(h) gets handle h when every call before it got its handle.    *)
(* from is the caller: "start" awaits the call inside its try, the         *)
(* reconnect timer ("reconnect") calls it with .then() and no handler.     *)
(***************************************************************************)
NextHandle(s) == Len(s.sockets) + Len(s.connectInFlight) + 1

Waiting(tok, from) == [token |-> tok, from |-> from]

M_connect(s, from) ==
    \* the start exchange is issued as soon as the handle is asked for
    [fx(fx(s, FxConnect(NextHandle(s))), FxRequest("start")) EXCEPT
              !.connectInFlight = Append(@, Waiting(s.token, from)),
              !.startInFlight =
                  @ \cup {[sock |-> NextHandle(s), token |-> s.token]}]

connect(s, from) ==
    [fx(s, FxConnect(NextHandle(s))) EXCEPT
              !.connectInFlight = Append(@, Waiting(s.token, from))]

(***************************************************************************)
(* Client._connect after the await.  When createSocketConnection resolved  *)
(* the handle exists (created with the URL of the call), the four handlers *)
(* are installed and the reference is kept, whatever the client did while  *)
(* the call waited.  When it rejected (the import of the socket module     *)
(* failed, or the constructor threw) _connect rejects with that error,     *)
(* which has no code: start() catches it, sets the state and raises the    *)
(* error; the reconnect timer gave the promise no handler, so the          *)
(* rejection is handled by nothing in the client (out.thrown keeps it).    *)
(***************************************************************************)
NewSocket(tok) ==
    [readyState |-> "CONNECTING", attached |-> TRUE, token |-> tok]

ConnectResults == {"ok", "reject"}

connectContinue(s, res) ==
    LET c == Head(s.connectInFlight)
        s1 == [s EXCEPT !.connectInFlight = Tail(@)]
    IN  IF res = "ok"
        THEN [fx(s1, FxHandle(Len(s.sockets) + 1)) EXCEPT
                  !.sockets = Append(@, NewSocket(c.token)),
                  !.websocket = Len(s.sockets) + 1]
        ELSE IF c.from = "start"
             THEN error(setState(s1, "disconnected"), "undefined")
             ELSE [s1 EXCEPT !.out.thrown = "TypeError"]

(***************************************************************************)
(* Client._negotiate, up to the await of fetch.                            *)
(***************************************************************************)
negotiate(s) ==
    [fx(s, FxRequest("negotiate")) EXCEPT !.negotiates = @ + 1,
              !.negotiateInFlight = @ \cup {s.negotiates + 1}]

(***************************************************************************)
(* Client.start, up to the await of _negotiate.                            *)
(***************************************************************************)
normalize(h) == [h EXCEPT !.depth = @ + 1]

M_start(s) ==
    \* the bound flag is set before the validation
    IF ~s.bound
    THEN LET s0 == [s EXCEPT !.bound = TRUE]
         IN  IF s.url = << >>
             THEN error(s0, "invalidURL")
             ELSE IF ~(StartsWith(s.url, HttpPrefix) \/ StartsWith(s.url, HttpsPrefix))
                  THEN error(s0, "invalidProtocol")
                  ELSE IF s.hubNames.isArray
                       THEN negotiate([s0 EXCEPT !.hubNames = normalize(@)])
                       ELSE error(s0, "noHub")
    ELSE negotiate(s)

start(s) ==
    IF ~s.bound
    THEN IF s.url = << >>
         THEN error(s, "invalidURL")
         ELSE IF ~(StartsWith(s.url, HttpPrefix) \/ StartsWith(s.url, HttpsPrefix))
              THEN error(s, "invalidProtocol")
              ELSE IF s.hubNames.isArray
                   THEN negotiate([s EXCEPT !.hubNames = normalize(@),
                                            !.bound = TRUE])
                   ELSE error(s, "noHub")
    ELSE negotiate(s)

(***************************************************************************)
(* Client._negotiate after the await: the exception it throws ("" if it    *)
(* returns the body).  A 200 answer whose body is not JSON makes           *)
(* data.json() reject with a SyntaxError, which has no code.               *)
(***************************************************************************)
M_negotiateThrows(res) ==
    \* 401 is not among the statuses mapped to unauthorized
    IF res.kind = "net" \/ res.kind = "text" THEN "undefined"
    ELSE IF res.kind = "ok"
         THEN IF ~res.body.TryWebSockets THEN "unsupportedWebsocket" ELSE ""
         ELSE IF res.status = 302 \/ res.status = 403
              THEN "unauthorized"
              ELSE "negotiateError"

negotiateThrows(res) ==
    IF res.kind = "net" \/ res.kind = "text" THEN "undefined"
    ELSE IF res.kind = "ok"
         THEN IF ~res.body.TryWebSockets THEN "unsupportedWebsocket" ELSE ""
         ELSE IF res.status = 302 \/ res.status = 401 \/ res.status = 403
              THEN "unauthorized"
              ELSE "negotiateError"

(***************************************************************************)
(* Client.start after the await of _negotiate (try body and catch).        *)
(* n is the negotiate request answered; the server issues token n.         *)
(***************************************************************************)
M_startContinue(s, n, res) ==
    \* the heartbeat interval is half of the keep-alive timeout
    LET code == negotiateThrows(res)
    IN  IF code # ""
        THEN error(setState(s, "disconnected"), code)
        ELSE LET b  == res.body
                 s0 == IF b.tokenIsString THEN [s EXCEPT !.token = n] ELSE s
                 s1 == [s0 EXCEPT !.negotiated =
                           IF ~b.hasKeepAlive THEN "absent"
                           ELSE IF b.KeepAliveTimeout = 0 THEN "zero"
                           ELSE "number"]
                 s2 == IF b.hasKeepAlive /\ b.KeepAliveTimeout # 0
                       THEN [s1 EXCEPT
                               !.keepAlive = TRUE,
                               !.keepAliveTimeout = b.KeepAliveTimeout * MsPerSecond,
                               !.beatInterval =
                                   (b.KeepAliveTimeout * MsPerSecond) \div 2]
                       ELSE [s1 EXCEPT !.keepAlive = FALSE]
             IN  connect(s2, "start")

startContinue(s, n, res) ==
    LET code == negotiateThrows(res)
    IN  IF code # ""
        THEN error(setState(s, "disconnected"), code)
        ELSE LET b  == res.body
                 s0 == IF b.tokenIsString THEN [s EXCEPT !.token = n] ELSE s
                 s1 == [s0 EXCEPT !.negotiated =
                           IF ~b.hasKeepAlive THEN "absent"
                           ELSE IF b.KeepAliveTimeout = 0 THEN "zero"
                           ELSE "number"]
                 s2 == IF b.hasKeepAlive /\ b.KeepAliveTimeout # 0
                       THEN [s1 EXCEPT
                               !.keepAlive = TRUE,
                               !.keepAliveTimeout = b.KeepAliveTimeout * MsPerSecond,
                               !.beatInterval =
                                   (b.KeepAliveTimeout * MsPerSecond) \div BeatDivisor]
                       ELSE [s1 EXCEPT !.keepAlive = FALSE]
             IN  connect(s2, "start")

(***************************************************************************)
(* Initial state: the client as its constructor leaves it.                 *)
(***************************************************************************)
InitOf(runs) ==
    /\ \E sc \in runs : \E c \in sc.configs :
           lim = sc /\ url = c.url /\ hubNames = c.hubs
    /\ bound = FALSE
    /\ state = "disconnected"
    /\ token = 0
    /\ lastMessageAt = 0
    /\ keepAlive = TRUE
    /\ keepAliveTimeout = DefaultKeepAliveTimeout
    /\ negotiated = "none"
    /\ beatInterval = DefaultBeatInterval
    /\ invocationId = 0
    /\ callTimeoutOv = 0
    /\ reconnectCount = 0
    /\ reconnectTimer = 0
    /\ beatTimer = 0
    /\ websocket = 0
    /\ handlers = << >>
    /\ callbacks = [i \in 0..MaxCalls |-> 0]
    /\ sockets = << >>
    /\ timers = {}
    /\ calls = << >>
    /\ negotiateInFlight = {}
    /\ startInFlight = {}
    /\ abortInFlight = 0
    /\ connectInFlight = << >>
    /\ starts = 0
    /\ ends = 0
    /\ negotiates = 0
    /\ opens = 0
    /\ now = 0
    /\ out = NoOut("init")

Init == InitOf(Scenarios)

\* the handles created and asked for: the runs bound their number
Handles == Len(sockets) + Len(connectInFlight)

(***************************************************************************)
(* The application calls start().                                          *)
(***************************************************************************)
AppStart ==
    /\ starts < lim.starts
    /\ negotiates < lim.negotiates
    /\ Commit(start([Begin("start") EXCEPT !.starts = @ + 1]))

(***************************************************************************)
(* The negotiate exchange completes and start() resumes.                   *)
(***************************************************************************)
NegotiateDone ==
    \E n \in negotiateInFlight, res \in NegotiateResultsOf(lim) :
        /\ negotiateThrows(res) = "" => Handles < lim.sockets
        /\ Commit(startContinue(
              [Begin("negotiateDone") EXCEPT
                  !.negotiateInFlight = @ \ {n},
                  !.out.kind = res.kind,
                  !.out.status = res.status,
                  !.out.body = res.body], n, res))

(***************************************************************************)
(* Client._start after the await of fetch: the exception it throws ("" if  *)
(* it returns).  A 200 answer whose body is not JSON makes data.json()     *)
(* reject with a SyntaxError, which has no code.                           *)
(***************************************************************************)
startThrows(res) ==
    IF res.kind = "net" THEN "startError"
    ELSE IF res.kind = "ok" THEN ""
         ELSE IF res.kind = "text" THEN "undefined"
              ELSE IF res.status = 302 \/ res.status = 401 \/ res.status = 403
                   THEN "unauthorized"
                   ELSE "startError"

(***************************************************************************)
(* webSocket.onopen, up to the await of _start.                            *)
(***************************************************************************)
onopen(s, h) ==
    [fx(s, FxRequest("start")) EXCEPT !.invocationId = 0,
              !.callTimeoutOv = 0,
              !.startInFlight = @ \cup {[sock |-> h, token |-> s.token]}]

(***************************************************************************)
(* webSocket.onopen after the await of _start (try body and catch).        *)
(***************************************************************************)
M_onopenContinue(s, h, res) ==
    \* the state is set only when the heartbeat is enabled
    LET code == startThrows(res)
    IN  IF code = ""
        THEN LET s1 == [s EXCEPT !.reconnectCount = 0]
                 s2 == post(s1, EvConnected)
                 s4 == markLastMessage(s2)
             IN  IF s4.keepAlive THEN beat(setState(s4, "connected")) ELSE s4
        ELSE error(setState(s, "disconnected"), code)

onopenContinue(s, h, res) ==
    LET code == startThrows(res)
    IN  IF code = ""
        THEN LET s1 == [s EXCEPT !.reconnectCount = 0]
                 s2 == post(s1, EvConnected)
                 s3 == setState(s2, "connected")
                 s4 == markLastMessage(s3)
             IN  IF s4.keepAlive THEN beat(s4) ELSE s4
        ELSE error(setState(s, "disconnected"), code)

(***************************************************************************)
(* webSocket.onclose                                                       *)
(***************************************************************************)
onclose(s) ==
    LET s1 == [s EXCEPT !.callTimeoutOv = CloseCallTimeout]
        s2 == setState(s1, "disconnected")
    IN  reconnect(post(s2, EvDisconnected("failed")), FALSE)

(***************************************************************************)
(* webSocket.onerror: only an event that carries an error field is raised. *)
(***************************************************************************)
onerror(s, hasError) ==
    IF hasError THEN error(s, "socketError") ELSE s

(***************************************************************************)
(* The reconnect timer callback set by Client._reconnect.                  *)
(***************************************************************************)
M_reconnectCallback(s, restart) ==
    \* the event is posted before the counter is incremented
    LET s1 == setState(s, "reconnecting")
        s2 == [post(s1, EvReconnecting(s1.reconnectCount))
                  EXCEPT !.reconnectCount = @ + 1]
        s3 == IF restart THEN start(s2) ELSE connect(s2, "reconnect")
    IN  [s3 EXCEPT !.reconnectTimer = 0]

reconnectCallback(s, restart) ==
    LET s1 == setState([s EXCEPT !.reconnectCount = @ + 1], "reconnecting")
        s2 == post(s1, EvReconnecting(s1.reconnectCount))
        s3 == IF restart THEN start(s2) ELSE connect(s2, "reconnect")
    IN  [s3 EXCEPT !.reconnectTimer = 0]

(***************************************************************************)
(* Client._abort, up to the await of fetch, and Client.end.                *)
(***************************************************************************)
abort(s) ==
    [fx(s, FxRequest("abort")) EXCEPT !.abortInFlight = @ + 1]

abortThrows(res) ==
    IF res.kind = "net" THEN "abortError"
    ELSE IF res.kind = "ok" THEN ""
         ELSE IF res.status = 302 \/ res.status = 401 \/ res.status = 403
              THEN "unauthorized"
              ELSE "abortError"

M_end(s) ==
    \* the heartbeat timer is not cancelled
    IF s.websocket # 0
    THEN close(clearReconnectTimer(abort(post(s, EvDisconnected("end")))))
    ELSE s

end(s) ==
    IF s.websocket # 0
    THEN close(clearBeatTimer(clearReconnectTimer(
             abort(post(s, EvDisconnected("end"))))))
    ELSE s

(***************************************************************************)
(* Transport events.  A handle that _close has closed fires nothing: its   *)
(* onclose, onmessage and onerror are no-ops, and a handle closed before   *)
(* it opened never opens.                                                  *)
(***************************************************************************)
SocketIds == 1..Len(sockets)

(***************************************************************************)
(* The promise of createSocketConnection settles for the oldest _connect   *)
(* call that waits: with a handle, or with a rejection.                    *)
(***************************************************************************)
ConnectDone ==
    \E res \in ConnectResults :
        /\ connectInFlight # << >>
        /\ Commit(connectContinue(
              [Begin("connectDone") EXCEPT !.out.kind = res], res))

WsOpen ==
    \E h \in SocketIds :
        /\ sockets[h].readyState = "CONNECTING"
        /\ Commit(onopen(
              [Begin("onopen") EXCEPT !.sockets[h].readyState = "OPEN",
                                      !.opens = @ + 1], h))

StartDone ==
    \E r \in startInFlight, res \in StartResultsOf(lim) :
        Commit(onopenContinue(
            [Begin("startDone") EXCEPT !.startInFlight = @ \ {r},
                                       !.out.kind = res.kind,
                                       !.out.status = res.status],
            r.sock, res))

WsClose ==
    \E h \in SocketIds :
        /\ sockets[h].readyState \in {"CONNECTING", "OPEN"}
        /\ LET s == [Begin("onclose") EXCEPT !.sockets[h].readyState = "CLOSED"]
           IN  Commit(IF sockets[h].attached THEN onclose(s) ELSE s)

WsError ==
    \E h \in SocketIds, hasError \in BOOLEAN :
        /\ sockets[h].readyState \in {"CONNECTING", "OPEN"}
        /\ sockets[h].attached
        /\ Commit(onerror(Begin("onerror"), hasError))

(***************************************************************************)
(* Timer callbacks.                                                        *)
(***************************************************************************)
ReconnectFire ==
    \E t \in ReconnectTimers(timers) :
        /\ IF t.restart THEN negotiates < lim.negotiates
                        ELSE Handles < lim.sockets
        /\ Commit(reconnectCallback(
              [Begin("reconnectTimer") EXCEPT !.timers = @ \ {t}], t.restart))

BeatFire ==
    \E t \in BeatTimers(timers) :
        Commit(beat([Begin("beatTimer") EXCEPT !.timers = @ \ {t}]))

(***************************************************************************)
(* The application calls end(); the abort exchange completes.  The promise *)
(* of _abort is given .catch() without a handler (abortContinue), so its   *)
(* rejection is handled by nothing in the client: out.thrown keeps it.     *)
(***************************************************************************)
AppEnd ==
    /\ ends < lim.ends
    /\ Commit(end([Begin("end") EXCEPT !.ends = @ + 1]))

M_abortContinue(s, res) ==
    \* the rejection of _abort is raised as an error event
    IF abortThrows(res) # "" THEN error(s, abortThrows(res)) ELSE s

abortContinue(s, res) == [s EXCEPT !.out.thrown = abortThrows(res)]

AbortDone ==
    \E res \in ExchangeResults :
        /\ abortInFlight > 0
        /\ Commit(abortContinue(
              [Begin("abortDone") EXCEPT !.abortInFlight = @ - 1,
                                         !.out.status = res.status], res))

(***************************************************************************)
(* Time passes.                                                            *)
(***************************************************************************)
Tick ==
    /\ now + TickMs <= lim.ticks * TickMs
    /\ Commit([Begin("tick") EXCEPT !.now = @ + TickMs])

(***************************************************************************)
(* Hub.  A call()/invoke() is a record of calls:                           *)
(*   inv      the invocation id placed in its envelope                     *)
(*   epoch    the number of transport opens that preceded it               *)
(*   sent     whether the envelope went out (handle open)                  *)
(*   timer    "armed", "fired", "cleared" ("none" for invoke)              *)
(*   delay    the delay the timeout timer was armed with                   *)
(*   settled  "pending", "resolved", "rejected" ("none" for invoke)        *)
(*   by       what settled the promise: "response", "timeout", "send"      *)
(*   nResp    number of times the response closure ran                     *)
(*   nTimeout number of times the timeout closure ran                      *)
(***************************************************************************)
CallTimeout == DefaultCallTimeout

M_TimeoutFor(s) ==
    \* the override is ignored
    IF CallTimeout # 0 THEN CallTimeout ELSE 5000

TimeoutFor(s) ==
    IF s.callTimeoutOv # 0 THEN s.callTimeoutOv
    ELSE IF CallTimeout # 0 THEN CallTimeout ELSE 5000

(***************************************************************************)
(* resolve / reject of the promise of call i: only the first one counts.   *)
(***************************************************************************)
settle(s, i, how, by) ==
    IF s.calls[i].settled = "pending"
    THEN [s EXCEPT !.calls[i].settled = how, !.calls[i].by = by]
    ELSE s

(***************************************************************************)
(* Client._sendMessage: TRUE iff it throws.  The id is consumed first.     *)
(***************************************************************************)
CanSend(s) ==
    s.websocket # 0 /\ s.sockets[s.websocket].readyState = "OPEN"

M_sendMessage(s) ==
    \* the id is consumed only by an envelope that is sent
    IF CanSend(s) THEN [s EXCEPT !.invocationId = @ + 1] ELSE s

sendMessage(s) == [s EXCEPT !.invocationId = @ + 1]

(***************************************************************************)
(* Hub.call                                                                *)
(***************************************************************************)
NewCall(s, kind) ==
    [kind |-> kind, inv |-> s.invocationId, epoch |-> s.opens,
     sent |-> CanSend(s),
     timer |-> IF kind = "call" THEN "armed" ELSE "none",
     delay |-> IF kind = "call" THEN TimeoutFor(s) ELSE 0,
     settled |-> IF kind = "call" THEN "pending" ELSE "none",
     by |-> "", nResp |-> 0, nTimeout |-> 0]

M_call(s) ==
    \* no timeout timer is armed for the call
    LET i  == Len(s.calls) + 1
        s1 == [s EXCEPT !.calls = Append(@, [NewCall(s, "call") EXCEPT !.timer = "none"]),
                        !.callbacks[s.invocationId] = i]
        s2 == sendMessage(s1)
    IN  IF CanSend(s) THEN s2 ELSE settle(s2, i, "rejected", "send")

call(s) ==
    LET i  == Len(s.calls) + 1
        s1 == [s EXCEPT !.calls = Append(@, NewCall(s, "call")),
                        !.callbacks[s.invocationId] = i]
        s2 == sendMessage(s1)
    IN  IF CanSend(s) THEN s2 ELSE settle(s2, i, "rejected", "send")

(***************************************************************************)
(* Hub.invoke: the TypeError of _sendMessage reaches the caller.           *)
(***************************************************************************)
invoke(s) ==
    LET s1 == [s EXCEPT !.calls = Append(@, NewCall(s, "invoke"))]
        s2 == sendMessage(s1)
    IN  IF CanSend(s) THEN s2 ELSE [s2 EXCEPT !.out.thrown = "TypeError"]

(***************************************************************************)
(* The timeout closure of call i (Hub.call, setTimeout).                   *)
(***************************************************************************)
M_callTimeout(s, i) ==
    \* the timeout only deletes the entry
    [s EXCEPT !.calls[i].timer = "fired",
              !.calls[i].nTimeout = @ + 1,
              !.callbacks[s.calls[i].inv] = 0]

callTimeout(s, i) ==
    LET s1 == [s EXCEPT !.calls[i].timer = "fired",
                        !.calls[i].nTimeout = @ + 1,
                        !.callbacks[s.calls[i].inv] = 0]
    IN  settle(s1, i, "rejected", "timeout")

(***************************************************************************)
(* The response closure of call i (Hub.call, this.callbacks[id] = ...).    *)
(***************************************************************************)
callResponse(s, i, E) ==
    LET s1 == [s EXCEPT
                 !.calls[i].timer = IF @ = "armed" THEN "cleared" ELSE @,
                 !.calls[i].nResp = @ + 1,
                 !.callbacks[s.calls[i].inv] = 0]
        s2 == IF E # "" THEN settle(s1, i, "rejected", "response") ELSE s1
    IN  settle(s2, i, "resolved", "response")

(***************************************************************************)
(* Hub._handleCallback                                                     *)
(***************************************************************************)
handleCallback(s, I, E) ==
    IF I \in DOMAIN s.callbacks /\ s.callbacks[I] # 0
    THEN callResponse(s, s.callbacks[I], E)
    ELSE s

(***************************************************************************)
(* Hub.on: the handler is pushed on the handlers array.                    *)
(***************************************************************************)
on(s, hub, method) ==
    [s EXCEPT !.handlers =
        Append(@, [hub |-> hub, method |-> method, cb |-> Len(@) + 1])]

(***************************************************************************)
(* JavaScript property access with a string name, as _receiveMessage does  *)
(* it twice: handlers[item.H], then handler[item.M].  A value is            *)
(*   undefined                                                             *)
(*   element k    the k-th handler triple [hub, method, callback]          *)
(*   number n, string (n = 1 when it is not empty), callback n             *)
(*   builtin n    a built-in method of arity n; called as method(A), with  *)
(*                no receiver, it throws a TypeError                       *)
(*   plain n      a function of arity n that returns when called with no   *)
(*                receiver: a constructor, Array.isArray/of/from,          *)
(*                Function.prototype                                       *)
(*   object       an object that is not callable; prototype is             *)
(*                Array.prototype, an array of length 0                    *)
(*   throws       the read itself throws a TypeError (caller, arguments)   *)
(* The property names are those listed below; a name that is not listed    *)
(* and is not an index names no property.  The arrays have fewer than ten  *)
(* elements, so an index is one digit.                                     *)
(***************************************************************************)
Value(t, n) == [t |-> t, n |-> n]

Undefined == Value("undefined", 0)

ArrayIndex(name) ==
    CASE name = "0" -> 1
      [] name = "1" -> 2
      [] name = "2" -> 3
      [] name = "3" -> 4
      [] name = "4" -> 5
      [] name = "5" -> 6
      [] name = "6" -> 7
      [] name = "7" -> 8
      [] name = "8" -> 9
      [] name = "9" -> 10
      [] OTHER -> 0

\* Object.prototype
ObjectMethods0 == { "valueOf", "toString", "toLocaleString" }

ObjectMethods1 ==
    { "hasOwnProperty", "isPrototypeOf", "propertyIsEnumerable",
      "__defineGetter__", "__defineSetter__", "__lookupGetter__",
      "__lookupSetter__" }

\* Array.prototype, by arity (0, or at least 1)
ArrayMethods0 ==
    { "entries", "flat", "keys", "pop", "reverse", "shift", "toReversed",
      "values" } \cup ObjectMethods0

ArrayMethods1 ==
    { "at", "concat", "copyWithin", "every", "fill", "filter", "find",
      "findIndex", "findLast", "findLastIndex", "flatMap", "forEach",
      "includes", "indexOf", "join", "lastIndexOf", "map", "push", "reduce",
      "reduceRight", "slice", "some", "sort", "splice", "toSorted",
      "toSpliced", "unshift", "with" } \cup ObjectMethods1

\* Number.prototype
NumberMethods0 == { "toLocaleString", "valueOf" }

NumberMethods1 ==
    { "toExponential", "toFixed", "toPrecision", "toString" } \cup ObjectMethods1

\* Function.prototype
FunctionMethods0 == ObjectMethods0

FunctionMethods1 == { "apply", "bind", "call" } \cup ObjectMethods1

ArrayProperty(len, name) ==
    IF name = "length" THEN Value("number", len)
    ELSE IF name \in ArrayMethods0 THEN Value("builtin", 0)
    ELSE IF name \in ArrayMethods1 THEN Value("builtin", 1)
    ELSE IF name = "constructor" THEN Value("plain", 1)
    ELSE IF name = "__proto__" THEN Value("prototype", 0)
    ELSE Undefined

NumberProperty(name) ==
    IF name \in NumberMethods0 THEN Value("builtin", 0)
    ELSE IF name \in NumberMethods1 THEN Value("builtin", 1)
    ELSE IF name = "constructor" THEN Value("plain", 1)
    ELSE IF name = "__proto__" THEN Value("object", 0)
    ELSE Undefined

\* isArray, of, from and prototype are properties of the constructor only
FunctionProperty(f, name) ==
    IF name = "length" THEN Value("number", f.n)
    ELSE IF name = "name" THEN Value("string", 1)
    ELSE IF name \in FunctionMethods0 THEN Value("builtin", 0)
    ELSE IF name \in FunctionMethods1 THEN Value("builtin", 1)
    ELSE IF name = "constructor" THEN Value("plain", 1)
    ELSE IF name = "__proto__" THEN Value("plain", 0)
    ELSE IF name \in {"caller", "arguments"} THEN Value("throws", 0)
    ELSE IF f.t = "plain" /\ name \in {"isArray", "of", "from"}
         THEN Value("plain", 1)
    ELSE IF f.t = "plain" /\ name = "prototype" THEN Value("prototype", 0)
    ELSE Undefined

\* handlers[name]
HandlersGet(hs, name) ==
    IF ArrayIndex(name) \in 1..Len(hs)
    THEN Value("element", ArrayIndex(name))
    ELSE ArrayProperty(Len(hs), name)

\* handler[name], handler a triple of handlers
TripleGet(h, name) ==
    CASE ArrayIndex(name) = 1 -> Value("string", IF h.hub # "" THEN 1 ELSE 0)
      [] ArrayIndex(name) = 2 -> Value("string", IF h.method # "" THEN 1 ELSE 0)
      [] ArrayIndex(name) = 3 -> Value("callback", h.cb)
      [] OTHER -> ArrayProperty(3, name)

\* v[name], v a value read from handlers
Get(hs, v, name) ==
    CASE v.t = "element" -> TripleGet(hs[v.n], name)
      [] v.t = "number" -> NumberProperty(name)
      [] v.t \in {"builtin", "plain"} -> FunctionProperty(v, name)
      [] v.t = "prototype" ->
             IF name = "__proto__" THEN Value("object", 0)
             ELSE ArrayProperty(0, name)
      [] OTHER -> Undefined

Truthy(v) ==
    CASE v.t = "undefined" -> FALSE
      [] v.t \in {"number", "string"} -> v.n # 0
      [] OTHER -> TRUE

(***************************************************************************)
(* Client._receiveMessage, the body of the loop over data.M for one item:  *)
(*   handler = handlers[item.H]; method = handler[item.M];                 *)
(*   if (method) method(item.A)                                            *)
(* Calling a value that is not a function throws a TypeError.  The         *)
(* arguments of an item are an array of words, with which the constructors *)
(* return.                                                                 *)
(***************************************************************************)
dispatch(s, item) ==
    LET handler == HandlersGet(s.handlers, item.H)
    IN  IF item.H = "" \/ ~Truthy(handler) \/ item.M = ""
        THEN s
        ELSE LET method == Get(s.handlers, handler, item.M)
             IN  CASE method.t = "callback" ->
                          [s EXCEPT !.out.invoked =
                              Append(@, <<method.n, item.A>>)]
                   [] method.t = "throws" ->
                          [s EXCEPT !.out.thrown = "TypeError"]
                   [] method.t = "plain" -> s
                   [] Truthy(method) ->
                          [s EXCEPT !.out.thrown = "TypeError"]
                   [] OTHER -> s

RECURSIVE dispatchAll(_, _)
dispatchAll(s, items) ==
    IF items = << >> \/ s.out.thrown # ""
    THEN s
    ELSE dispatchAll(dispatch(s, Head(items)), Tail(items))

(***************************************************************************)
(* Inbound frames: the text of the frame, parsed.                          *)
(*   raw   "{}" for the literal keepalive, "json" for any other JSON text  *)
(*   hasM  the object has an M array; I is 0 when I is absent or 0         *)
(***************************************************************************)
Item(h, m, a) == [H |-> h, M |-> m, A |-> a]

PushItems ==
    { Item("Hub", "Method", "x"), Item("Hub2", "Method2", "x"),
      Item("0", "2", "x"), Item("0", "0", "x"), Item("0", "Method", "x"),
      Item("0", "length", "x"), Item("map", "length", "x"),
      Item("length", "map", "x") }

Frame(raw, hasM, M, I, E) ==
    [raw |-> raw, hasM |-> hasM, M |-> M, I |-> I, E |-> E]

Keepalive == Frame("{}", FALSE, << >>, 0, "")

Frames ==
    { Keepalive, Frame("json", FALSE, << >>, 0, ""), Frame("json", TRUE, << >>, 0, "") }
    \cup { Frame("json", TRUE, <<a>>, 0, "") : a \in PushItems }
    \cup { Frame("json", TRUE, <<a, b>>, 0, "") :
             a \in {Item("Hub", "Method", "x"), Item("0", "0", "x")},
             b \in {Item("0", "2", "y")} }
    \cup { Frame("json", FALSE, << >>, i, e) : i \in 0..MaxFrameId, e \in {"", "err"} }

FrameKind(f) ==
    IF f.raw = "{}" THEN "keepalive"
    ELSE IF f.hasM THEN "push"
         ELSE IF f.I # 0 THEN "response" ELSE "other"

(***************************************************************************)
(* Client._receiveMessage                                                  *)
(***************************************************************************)
M_receiveMessage(s, f) ==
    \* the keepalive frame is dropped before the timestamp is refreshed
    IF f.raw # "{}"
    THEN LET s1 == markLastMessage(s)
         IN  IF f.hasM
             THEN dispatchAll(s1, f.M)
             ELSE IF f.I # 0 THEN handleCallback(s1, f.I, f.E) ELSE s1
    ELSE s

receiveMessage(s, f) ==
    LET s1 == markLastMessage(s)
    IN  IF f.raw # "{}"
        THEN IF f.hasM
             THEN dispatchAll(s1, f.M)
             ELSE IF f.I # 0 THEN handleCallback(s1, f.I, f.E) ELSE s1
        ELSE s1

WsMessage ==
    \E h \in SocketIds, f \in Frames :
        /\ sockets[h].readyState = "OPEN"
        /\ sockets[h].attached
        /\ Commit(receiveMessage(
              [Begin("onmessage") EXCEPT !.out.frame = FrameKind(f),
                                         !.out.id = f.I], f))

(***************************************************************************)
(* The application uses the hub.                                           *)
(***************************************************************************)
OnPairs == { <<"Hub", "Method">>, <<"0", "2">> }

AppOn ==
    \E p \in OnPairs :
        /\ Len(handlers) < lim.ons
        /\ Commit(on(Begin("on"), p[1], p[2]))

AppCall ==
    /\ Len(calls) < lim.calls
    /\ Commit(call(Begin("call")))

Invokes == Cardinality({ i \in 1..Len(calls) : calls[i].kind = "invoke" })

AppInvoke ==
    /\ Len(calls) < lim.calls
    /\ Invokes < lim.invokes
    /\ Commit(invoke(Begin("invoke")))

CallTimeoutFire ==
    \E i \in 1..Len(calls) :
        /\ calls[i].timer = "armed"
        /\ Commit(callTimeout([Begin("callTimeout") EXCEPT !.out.id = i], i))

(***************************************************************************)
(* The specification.                                                      *)
(***************************************************************************)
Next ==
    \/ AppStart
    \/ NegotiateDone
    \/ ConnectDone
    \/ WsOpen
    \/ StartDone
    \/ WsMessage
    \/ WsError
    \/ WsClose
    \/ ReconnectFire
    \/ BeatFire
    \/ AppEnd
    \/ AbortDone
    \/ AppOn
    \/ AppCall
    \/ AppInvoke
    \/ CallTimeoutFire
    \/ Tick

Spec == Init /\ [][Next]_vars

(***************************************************************************)
(* Helpers of the properties.                                              *)
(***************************************************************************)
Count(seq, e) == Cardinality({ k \in 1..Len(seq) : seq[k] = e })

Armed(o, kind) == \E k \in 1..Len(o.trace) :
                      o.trace[k].type = "setTimeout" /\ o.trace[k].data = kind

(***************************************************************************)
(* C1: when the start exchange of a handshake succeeds, the connection     *)
(* state becomes Connected and exactly one connected event is posted; no   *)
(* other callback posts a connected event.                                 *)
(***************************************************************************)
C1_ConnectedOnce ==
    /\ (out.step = "startDone" /\ out.kind = "ok") =>
           (state = "connected" /\ Events(out) = <<EvConnected>>)
    /\ ~(out.step = "startDone" /\ out.kind = "ok") =>
           Count(out.trace, EvConnected) = 0

C1_Witness ==
    /\ out.step = "startDone" /\ out.kind = "ok"
    /\ starts = 1 /\ negotiates = 1 /\ Len(sockets) = 1 /\ reconnectCount = 0
    /\ state = "connected" /\ token = 1

(***************************************************************************)
(* C2: when the negotiate exchange returns status 401, exactly one error   *)
(* event is posted, its code is unauthorized, no reconnect timer is        *)
(* scheduled and the state is Disconnected.                                *)
(***************************************************************************)
C2_Unauthorized ==
    (out.step = "negotiateDone" /\ out.status = 401) =>
        /\ Events(out) = <<EvError("unauthorized")>>
        /\ ~Armed(out, "reconnect")
        /\ state = "disconnected"

C2_Witness ==
    /\ out.step = "negotiateDone" /\ out.status = 401
    /\ Events(out) = <<EvError("unauthorized")>>
    /\ timers = {} /\ reconnectTimer = 0

(***************************************************************************)
(* C3: whenever the transport closes while the state is Connected, one     *)
(* disconnected("failed") event is posted and the recovery that is then    *)
(* pending is the soft one (delay reconnectDelayTime, the transport        *)
(* reopened without a negotiate exchange).                                 *)
(***************************************************************************)
ClosedWhileConnected ==
    state = "connected" /\ out'.step = "onclose" /\ out'.trace # << >>

C3_SoftReconnect ==
    [][ClosedWhileConnected =>
          /\ Events(out') = <<EvDisconnected("failed")>>
          /\ \E t \in ReconnectTimers(timers') :
                 ~t.restart /\ t.delay = DefaultReconnectDelay
          /\ \A t \in ReconnectTimers(timers') : ~t.restart]_vars

(***************************************************************************)
(* C4: at most one reconnect timer is pending, whatever the number of      *)
(* reconnect requests, and the callback of a reconnect timer makes exactly *)
(* one recovery attempt: one reconnecting event and one start (negotiate)  *)
(* or connect, after which no reconnect timer is pending.                  *)
(***************************************************************************)
C4_OneRecovery ==
    /\ Cardinality(ReconnectTimers(timers)) <= 1
    /\ (reconnectTimer = 0) = (ReconnectTimers(timers) = {})
    /\ out.step = "reconnectTimer" =>
          /\ Len(Events(out)) = 1
          /\ Events(out)[1].type = "reconnecting"
          /\ Cardinality({ k \in 1..Len(out.trace) :
                 out.trace[k].type = "connect"
                    \/ out.trace[k] = FxRequest("negotiate") }) = 1
          /\ ReconnectTimers(timers) = {}

C4_Witness ==
    /\ out.debounced > 0
    /\ Cardinality(ReconnectTimers(timers)) = 1
    /\ reconnectTimer # 0

(***************************************************************************)
(* C5: the promise of every call is settled at most once, by the response  *)
(* closure or by the timeout closure of the call, whichever runs first     *)
(* (of the two closures at most one ever runs; after the timeout the       *)
(* registry has no entry for the call, after the response the timer is     *)
(* cancelled); the delivery of a response with the id of a call whose      *)
(* timeout has fired, and the timeout of a call whose response has run,    *)
(* settles nothing and leaves the registry of pending calls unchanged.     *)
(***************************************************************************)
SettledOnce(i) ==
    /\ calls[i].nResp + calls[i].nTimeout <= 1
    /\ calls[i].nTimeout = 1 =>
          /\ calls[i].timer = "fired"
          /\ \A k \in DOMAIN callbacks : callbacks[k] # i
    /\ calls[i].nResp = 1 =>
          /\ calls[i].timer = "cleared"
          /\ \A k \in DOMAIN callbacks : callbacks[k] # i
    /\ calls[i].by = "response" => calls[i].nResp = 1
    /\ calls[i].by = "timeout" => calls[i].nTimeout = 1
    /\ calls[i].settled = "pending" =>
          calls[i].nResp + calls[i].nTimeout = 0

\* a response frame with the id call i was sent with is delivered after the
\* timeout of call i has fired
LateResponse(i) ==
    /\ calls[i].sent /\ calls[i].nTimeout = 1
    /\ out'.step = "onmessage" /\ out'.frame = "response"
    /\ out'.id = calls[i].inv

\* the timeout of call i runs after the response closure of call i
LateTimeout(i) ==
    /\ calls[i].nResp = 1
    /\ out'.step = "callTimeout" /\ out'.id = i

C5_SettleOnce ==
    [][/\ \A i \in 1..Len(calls') :
             calls'[i].kind = "call" => SettledOnce(i)'
       /\ \A i \in 1..Len(calls) :
             (calls[i].kind = "call" /\ (LateResponse(i) \/ LateTimeout(i))) =>
                 /\ calls' = calls
                 /\ callbacks' = callbacks]_vars

(***************************************************************************)
(* C6 as stated: the correlation ids of the envelopes sent by call and     *)
(* invoke are pairwise distinct and strictly increasing in the order of    *)
(* the operations, whatever transport events happen between them.          *)
(***************************************************************************)
C6_Original ==
    \A i, j \in 1..Len(calls) :
        (i < j /\ calls[i].sent /\ calls[j].sent) =>
            calls[i].inv < calls[j].inv

(***************************************************************************)
(* C6 amended: the correlation id of a call or invoke is the number of     *)
(* call/invoke operations made before it since the last transport open     *)
(* (since construction when there was none): ids are distinct and strictly *)
(* increasing between two opens, and every open resets the counter to 0.   *)
(***************************************************************************)
C6_IdsPerOpen ==
    /\ \A i \in 1..Len(calls) :
          calls[i].inv = Cardinality({ k \in 1..(i - 1) :
                                         calls[k].epoch = calls[i].epoch })
    /\ \A i, j \in 1..Len(calls) :
          (i < j /\ calls[i].epoch = calls[j].epoch) =>
              calls[i].inv < calls[j].inv
    /\ out.step = "onopen" => invocationId = 0
    /\ invocationId = Cardinality({ k \in 1..Len(calls) :
                                      calls[k].epoch = opens })

C6_Witness ==
    /\ Len(calls) = 2
    /\ calls[1].epoch = calls[2].epoch
    /\ calls[1].sent /\ calls[2].sent
    /\ calls[1].kind = "call" /\ calls[2].kind = "invoke"
    /\ calls[1].inv = 0 /\ calls[2].inv = 1
    /\ opens = 2

(***************************************************************************)
(* C7 as stated: a call whose timeout timer fired without a response was   *)
(* rejected with the timeout failure.                                      *)
(***************************************************************************)
C7_Original ==
    \A i \in 1..Len(calls) :
        (calls[i].kind = "call" /\ calls[i].timer = "fired"
            /\ calls[i].nResp = 0) =>
                (calls[i].settled = "rejected" /\ calls[i].by = "timeout")

(***************************************************************************)
(* C7 amended: a call whose envelope was sent and whose timeout timer      *)
(* fired without a response is rejected with the timeout failure; a call   *)
(* made while the transport is not open is rejected at once with the       *)
(* TypeError of the send and its timer later only removes the entry.  In   *)
(* both cases the entry is gone when the timeout callback returns, and the *)
(* delay of the timer is the effective call timeout.                       *)
(***************************************************************************)
C7_TimeoutRejects ==
    /\ \A i \in 1..Len(calls) :
          calls[i].kind = "call" =>
              /\ calls[i].delay \in {CloseCallTimeout, CallTimeout}
              /\ ~calls[i].sent =>
                    (calls[i].settled = "rejected" /\ calls[i].by = "send")
              /\ (calls[i].timer = "fired" /\ calls[i].sent) =>
                    /\ calls[i].settled = "rejected"
                    /\ calls[i].by = "timeout"
                    /\ calls[i].nResp = 0
              /\ calls[i].timer = "fired" =>
                    \A k \in DOMAIN callbacks : callbacks[k] # i
    /\ out.step = "callTimeout" =>
          /\ calls[out.id].timer = "fired"
          /\ callbacks[calls[out.id].inv] = 0

C7_Witness ==
    /\ out.step = "callTimeout"
    /\ calls[out.id].sent /\ calls[out.id].timer = "fired"
    /\ calls[out.id].settled = "rejected" /\ calls[out.id].by = "timeout"
    /\ calls[out.id].delay = CallTimeout
    /\ callbacks[calls[out.id].inv] = 0

(***************************************************************************)
(* C8: when a push batch is delivered, each item {H, M, A} whose (H, M)    *)
(* was registered with on(H, M, cb) invokes that callback once with A, in  *)
(* the order of the batch; the other items invoke nothing; and no error    *)
(* is raised.                                                              *)
(***************************************************************************)
Registered(hs, item) ==
    { k \in 1..Len(hs) : hs[k].hub = item.H /\ hs[k].method = item.M }

RECURSIVE Expected(_, _)
Expected(hs, items) ==
    IF items = << >> THEN << >>
    ELSE LET item == Head(items)
             reg  == Registered(hs, item)
         IN  (IF reg = {} THEN << >>
              ELSE <<  <<hs[CHOOSE k \in reg : \A m \in reg : m <= k].cb,
                         item.A>>  >>)
             \o Expected(hs, Tail(items))

Delivered(f) ==
    /\ f.hasM
    /\ out'.step = "onmessage"
    /\ out' = receiveMessage(
                 [Begin("onmessage") EXCEPT !.out.frame = FrameKind(f),
                                            !.out.id = f.I], f).out

C8_PushDispatch ==
    [][\A f \in Frames :
          Delivered(f) =>
              (out'.invoked = Expected(handlers, f.M) /\ out'.thrown = "")]_vars

(***************************************************************************)
(* C9: in every connection state, the delivery of the frame "{}" sets      *)
(* lastMessageAt to the current time and does nothing else: no callback    *)
(* is invoked, nothing is posted, requested or scheduled, and no other     *)
(* field of the client or of the hub changes.                              *)
(***************************************************************************)
C9_Keepalive ==
    [][(out'.step = "onmessage" /\ out'.frame = "keepalive") =>
          /\ lastMessageAt' = now
          /\ out'.trace = << >> /\ out'.invoked = << >> /\ out'.thrown = ""
          /\ UNCHANGED << url, hubNames, bound, state, token, keepAlive,
                          keepAliveTimeout, beatInterval, invocationId,
                          callTimeoutOv, reconnectCount, reconnectTimer,
                          beatTimer, websocket, handlers, callbacks, sockets,
                          timers, calls, negotiateInFlight, startInFlight,
                          connectInFlight,
                          abortInFlight, now >>]_vars

C9_Witness ==
    /\ out.step = "onmessage" /\ out.frame = "keepalive"
    /\ state = "reconnecting"
    /\ now > 0 /\ lastMessageAt = now
    /\ BeatTimers(timers) = {}

(***************************************************************************)
(* C10: while the negotiate response that start() read last carried no     *)
(* KeepAliveTimeout, no callback schedules a heartbeat timer.              *)
(***************************************************************************)
C10_NoHeartbeat ==
    negotiated = "absent" => ~Armed(out, "beat")

(***************************************************************************)
(* C11 as stated: for every numeric KeepAliveTimeout k of a negotiate      *)
(* response that start() reads, the keep-alive timeout becomes k * 1000 ms *)
(* and the heartbeat interval k * 250 ms.                                  *)
(***************************************************************************)
ReadKeepAlive(o) ==
    /\ o.step = "negotiateDone" /\ o.status = 200
    /\ o.body.TryWebSockets /\ o.body.hasKeepAlive

C11_Original ==
    ReadKeepAlive(out) =>
        /\ keepAliveTimeout = out.body.KeepAliveTimeout * 1000
        /\ beatInterval = out.body.KeepAliveTimeout * 250

(***************************************************************************)
(* C11 amended: for every numeric KeepAliveTimeout k other than 0 the      *)
(* heartbeat is enabled, the keep-alive timeout becomes k * 1000 ms and    *)
(* the heartbeat interval k * 250 ms (5000 ms for k = 20); for k = 0 the   *)
(* heartbeat is disabled and the timeout and the interval keep the values  *)
(* they had.                                                               *)
(***************************************************************************)
C11_KeepAliveScaling ==
    [][ReadKeepAlive(out') =>
          IF out'.body.KeepAliveTimeout # 0
          THEN /\ keepAlive'
               /\ keepAliveTimeout' = out'.body.KeepAliveTimeout * 1000
               /\ beatInterval' = out'.body.KeepAliveTimeout * 250
          ELSE /\ ~keepAlive'
               /\ UNCHANGED << keepAliveTimeout, beatInterval >>]_vars

C11_Witness ==
    /\ ReadKeepAlive(out) /\ out.body.KeepAliveTimeout = 20
    /\ keepAlive /\ keepAliveTimeout = 20000 /\ beatInterval = 5000

(***************************************************************************)
(* C12: in every state, raising an error code posts the error event and    *)
(* asks for the recovery of the closed table: a full restart for           *)
(* negotiateError and connectError, a soft reconnect for startError and    *)
(* connectLost, nothing for the other codes.  The recovery asked for is    *)
(* scheduled (one new reconnect timer of that mode) whenever no reconnect  *)
(* timer is pending and the state is not Reconnecting; no code ever        *)
(* schedules a recovery of another mode.                                   *)
(***************************************************************************)
FullRestartCodes == { "negotiateError", "connectError" }
SoftReconnectCodes == { "startError", "connectLost" }

RaisedAs(code) ==
    LET r   == error(Begin("error"), code)
        new == r.timers \ timers
    IN  /\ Events(r.out) = <<EvError(code)>>
        /\ IF code \in FullRestartCodes \cup SoftReconnectCodes
           THEN IF reconnectTimer = 0 /\ state # "reconnecting"
                THEN /\ Cardinality(new) = 1
                     /\ \A t \in new :
                           /\ t.kind = "reconnect" /\ t.id = r.reconnectTimer
                           /\ t.restart = (code \in FullRestartCodes)
                           /\ t.delay = DefaultReconnectDelay
                ELSE r.timers = timers /\ r.reconnectTimer = reconnectTimer
           ELSE /\ r.timers = timers /\ r.reconnectTimer = reconnectTimer
                /\ r.websocket = websocket /\ r.sockets = sockets
                /\ r.out.trace = <<EvError(code)>>
                /\ r.out.debounced = 0

C12_RecoveryTable ==
    /\ \A code \in ErrorCodes : RaisedAs(code)
    /\ \A k \in 1..Len(out.trace) :
          (out.trace[k].type = "error" /\ Armed(out, "reconnect")) =>
              /\ out.trace[k].data \in FullRestartCodes \cup SoftReconnectCodes
              /\ \E t \in ReconnectTimers(timers) :
                    /\ t.id = reconnectTimer
                    /\ t.restart = (out.trace[k].data \in FullRestartCodes)

C12_Witness ==
    /\ out.step = "startDone"
    /\ Events(out) = <<EvError("startError")>>
    /\ \E t \in ReconnectTimers(timers) : ~t.restart /\ t.id = reconnectTimer
    /\ websocket = 0

(***************************************************************************)
(* C13: whenever the negotiate exchange fails, by a failure of the request *)
(* itself or by a status other than 200, 302, 401 and 403, exactly one     *)
(* error event with code negotiateError is posted and a full restart is    *)
(* pending.                                                                *)
(***************************************************************************)
UnauthorizedStatuses == { 302, 401, 403 }

C13_NegotiateFailure ==
    (out.step = "negotiateDone" /\ out.status # 200
        /\ out.status \notin UnauthorizedStatuses) =>
            /\ Events(out) = <<EvError("negotiateError")>>
            /\ \E t \in ReconnectTimers(timers) : t.restart

(***************************************************************************)
(* C14: whenever a transport that has not opened yet closes, an error      *)
(* event with code connectError is posted and a full restart is pending.   *)
(***************************************************************************)
C14_OpenFailure ==
    [][\A h \in SocketIds :
          (/\ sockets[h].readyState = "CONNECTING" /\ sockets[h].attached
           /\ out'.step = "onclose"
           /\ sockets'[h].readyState = "CLOSED") =>
              /\ \E k \in 1..Len(out'.trace) :
                     out'.trace[k] = EvError("connectError")
              /\ \E t \in ReconnectTimers(timers') : t.restart]_vars

(***************************************************************************)
(* C15: on a client started once, when the negotiate or the start exchange *)
(* returns 302, 401 or 403 exactly one error event is posted, its code is  *)
(* unauthorized and no reconnect is scheduled; and the callback that runs  *)
(* next, unless it is a call of start(), schedules no reconnect, posts no  *)
(* reconnecting event and makes no negotiate request or connect.           *)
(***************************************************************************)
Unauthorized(o) ==
    /\ o.step \in {"negotiateDone", "startDone"}
    /\ o.status \in UnauthorizedStatuses

C15_UnauthorizedFatal ==
    [][/\ (Unauthorized(out') /\ starts' = 1) =>
             /\ Events(out') = <<EvError("unauthorized")>>
             /\ ~Armed(out', "reconnect")
       /\ (Unauthorized(out) /\ starts' = 1 /\ out'.step # "start") =>
             /\ ~Armed(out', "reconnect")
             /\ \A k \in 1..Len(out'.trace) :
                   /\ out'.trace[k].type \notin {"reconnecting", "connect"}
                   /\ out'.trace[k] # FxRequest("negotiate")]_vars

(***************************************************************************)
(* C16: in the callback that raises an error with an automatic recovery    *)
(* (negotiateError, connectError, startError, connectLost) the error event *)
(* is posted before the transport is closed, before the heartbeat timer is *)
(* cancelled and before the reconnect timer is scheduled; the reconnecting *)
(* event is posted by a later callback.                                    *)
(***************************************************************************)
IsRecovery(e) ==
    \/ e.type \in {"close", "clearTimeout", "reconnecting"}
    \/ e.type = "setTimeout" /\ e.data = "reconnect"

C16_ErrorFirst ==
    \A i \in 1..Len(out.trace) :
        (out.trace[i].type = "error"
            /\ out.trace[i].data \in FullRestartCodes \cup SoftReconnectCodes) =>
                /\ \A j \in 1..Len(out.trace) : IsRecovery(out.trace[j]) => i < j
                /\ out.debounced = 0 =>
                      out.trace[Len(out.trace)] =
                          FxSetTimeout("reconnect", DefaultReconnectDelay)
                /\ out.debounced # 0 => i = Len(out.trace)

C16_Witness ==
    /\ out.step = "beatTimer"
    /\ \E h \in SocketIds :
          out.trace = << FxState("disconnected"), EvError("connectLost"),
                         FxClearTimeout("beat"), FxClose(h),
                         FxSetTimeout("reconnect", DefaultReconnectDelay) >>

(***************************************************************************)
(* C17: when start() is called on a client that is not bound and whose URL *)
(* is empty, whose URL starts with neither http: nor https:, or whose      *)
(* endpoint list is not an array, it posts the one error event of the      *)
(* first check that fails (invalidURL, invalidProtocol, noHub) and does    *)
(* nothing else: no request, no timer, bound stays false, the endpoint     *)
(* list is not normalized, and the state and every other field keep their  *)
(* values.                                                                 *)
(***************************************************************************)
ValidationCode ==
    IF url = << >> THEN "invalidURL"
    ELSE IF ~(StartsWith(url, HttpPrefix) \/ StartsWith(url, HttpsPrefix))
         THEN "invalidProtocol"
         ELSE IF ~hubNames.isArray THEN "noHub" ELSE ""

C17_ValidationOnly ==
    [][(out'.step = "start" /\ ~bound /\ ValidationCode # "") =>
          /\ out'.trace = <<EvError(ValidationCode)>>
          /\ state' = "disconnected" /\ ~bound'
          /\ negotiates' = negotiates /\ negotiateInFlight' = {}
          /\ timers' = {} /\ reconnectTimer' = 0
          /\ UNCHANGED << url, hubNames, bound, state, token, lastMessageAt,
                          keepAlive, keepAliveTimeout, negotiated,
                          beatInterval, invocationId, callTimeoutOv,
                          reconnectCount, reconnectTimer, beatTimer,
                          websocket, handlers, callbacks, sockets, timers,
                          calls, negotiateInFlight, startInFlight,
                          connectInFlight,
                          abortInFlight, ends, negotiates, opens, now >>]_vars

C17_Witness ==
    /\ out.step = "start" /\ out.trace = <<EvError("noHub")>>
    /\ starts = 2 /\ ~bound /\ negotiates = 0
    /\ hubNames.depth = 0 /\ state = "disconnected"

(***************************************************************************)
(* C18: start() on a client constructed with an empty array of endpoint    *)
(* names posts the noHub error and issues no negotiate request.            *)
(***************************************************************************)
C18_EmptyHubList ==
    (out.step = "start" /\ hubNames.isArray /\ hubNames.names = << >>) =>
        /\ Events(out) = <<EvError("noHub")>>
        /\ negotiates = 0

(***************************************************************************)
(* C19: end() with a transport present posts disconnected("end"), issues   *)
(* the abort request, cancels the timers the reconnect handle and the      *)
(* heartbeat handle refer to, closes the transport and clears the three    *)
(* references; end() with no transport present posts nothing, requests     *)
(* nothing and changes no field.                                           *)
(***************************************************************************)
C19_End ==
    [][out'.step = "end" =>
          IF websocket # 0
          THEN /\ Events(out') = <<EvDisconnected("end")>>
               /\ out'.trace[1] = EvDisconnected("end")
               /\ out'.trace[2] = FxRequest("abort")
               /\ abortInFlight' = abortInFlight + 1
               /\ reconnectTimer' = 0 /\ beatTimer' = 0
               /\ timers' = { t \in timers :
                                t.id \notin {reconnectTimer, beatTimer} }
               /\ websocket' = 0
               /\ sockets'[websocket].readyState = "CLOSED"
               /\ ~sockets'[websocket].attached
               /\ out'.trace[Len(out'.trace)] = FxClose(websocket)
          ELSE /\ out'.trace = << >>
               /\ UNCHANGED << url, hubNames, bound, state, token,
                               lastMessageAt, keepAlive, keepAliveTimeout,
                               negotiated, beatInterval, invocationId,
                               callTimeoutOv, reconnectCount, reconnectTimer,
                               beatTimer, websocket, handlers, callbacks,
                               sockets, timers, calls, negotiateInFlight,
                               startInFlight,
                               connectInFlight, abortInFlight, starts,
                               negotiates, opens, now >>]_vars

C19_Witness ==
    /\ out.step = "end"
    /\ \E h \in SocketIds :
          out.trace = << EvDisconnected("end"), FxRequest("abort"),
                         FxClearTimeout("beat"), FxClose(h) >>
    /\ websocket = 0 /\ timers = {} /\ abortInFlight = 1

(***************************************************************************)
(* C20: after an end() that found a transport, the callback that runs      *)
(* next, unless it is a call of start(), schedules neither a reconnect     *)
(* timer nor a heartbeat timer and posts neither a connected nor a         *)
(* reconnecting event.                                                     *)
(***************************************************************************)
C20_EndStops ==
    [][(out.step = "end" /\ out.trace # << >> /\ out'.step # "start") =>
          /\ ~Armed(out', "reconnect") /\ ~Armed(out', "beat")
          /\ \A k \in 1..Len(out'.trace) :
                out'.trace[k].type \notin {"connected", "reconnecting"}]_vars

(***************************************************************************)
(* C21: when the abort exchange issued by end() fails (the request itself  *)
(* fails, or any status other than 200), the callback posts no event,      *)
(* schedules no timer, makes no request and changes no field of the        *)
(* client; and the end() that issued it has already cancelled the timers   *)
(* of its two handles and closed the transport in the callback that sent   *)
(* the request, before any outcome of the exchange is known.               *)
(***************************************************************************)
C21_AbortFailure ==
    [][/\ (out'.step = "abortDone" /\ out'.status # 200) =>
             /\ out'.trace = << >>
             /\ abortInFlight' = abortInFlight - 1
             /\ UNCHANGED << url, hubNames, bound, state, token,
                             lastMessageAt, keepAlive, keepAliveTimeout,
                             negotiated, beatInterval, invocationId,
                             callTimeoutOv, reconnectCount, reconnectTimer,
                             beatTimer, websocket, handlers, callbacks,
                             sockets, timers, calls, negotiateInFlight,
                             startInFlight,
                             connectInFlight, starts, ends, negotiates, opens,
                             now >>
       /\ abortInFlight' > abortInFlight =>
             /\ out'.step = "end" /\ websocket # 0
             /\ websocket' = 0 /\ reconnectTimer' = 0 /\ beatTimer' = 0
             /\ sockets'[websocket].readyState = "CLOSED"
             /\ \A t \in timers' : t.id \notin {reconnectTimer, beatTimer}]_vars

C21_Witness ==
    /\ out.step = "abortDone" /\ out.status = 500
    /\ out.thrown = "abortError" /\ out.trace = << >>
    /\ ends = 1 /\ abortInFlight = 0
    /\ websocket = 0 /\ timers = {} /\ sockets[1].readyState = "CLOSED"

(***************************************************************************)
(* C22: every error event of the transport posts exactly one error event   *)
(* with code socketError, schedules no reconnect timer, closes nothing and *)
(* leaves the connection state and the transport reference as they were.   *)
(***************************************************************************)
C22_SocketError ==
    [][out'.step = "onerror" =>
          /\ Events(out') = <<EvError("socketError")>>
          /\ out'.trace = <<EvError("socketError")>>
          /\ UNCHANGED << state, websocket, sockets, timers, reconnectTimer,
                          beatTimer >>]_vars

(***************************************************************************)
(* C23: in the callback of a successful start exchange the state is set to *)
(* Connected before the connected event is posted, so that the state a     *)
(* subscriber reads while it is handed the event (the last state set in    *)
(* the callback before the post, or the state the callback began with) is  *)
(* Connected.                                                              *)
(***************************************************************************)
StateAt(o, k, before) ==
    LET set == { j \in 1..(k - 1) : o.trace[j].type = "state" }
    IN  IF set = {} THEN before
        ELSE o.trace[CHOOSE j \in set : \A i \in set : i <= j].data

C23_ConnectedAfterState ==
    [][\A k \in 1..Len(out'.trace) :
          out'.trace[k] = EvConnected =>
              /\ \E j \in 1..(k - 1) : out'.trace[j] = FxState("connected")
              /\ StateAt(out', k, state) = "connected"]_vars

(***************************************************************************)
(* C24: the steps of a handshake occur in the order negotiate success,     *)
(* transport open, start exchange, connected event.  A transport is asked  *)
(* for only by the callback that read a successful negotiate response      *)
(* (full start) or, for a soft reconnect, by a reconnect timer after such  *)
(* a response was read and without a new negotiate, and a handle is        *)
(* created only in answer to such a call; the start request is             *)
(* issued only by the open event of a handle, once per open; the connected *)
(* event is posted only by the completion with status 200 and a JSON body  *)
(* of a start exchange whose handle has opened.                            *)
(***************************************************************************)
Did(o, e) == \E k \in 1..Len(o.trace) : o.trace[k] = e

Connects(o) == \E k \in 1..Len(o.trace) : o.trace[k].type = "connect"

C24_HandshakeOrder ==
    [][/\ Connects(out') =>
             \/ /\ out'.step = "negotiateDone" /\ out'.kind = "ok"
                /\ out'.body.TryWebSockets /\ negotiated' # "none"
                /\ negotiateInFlight' # negotiateInFlight
             \/ /\ out'.step = "reconnectTimer" /\ negotiated # "none"
                /\ negotiates' = negotiates
                /\ \E t \in ReconnectTimers(timers) \ timers' : ~t.restart
       /\ Len(connectInFlight') > Len(connectInFlight) => Connects(out')
       /\ Len(sockets') > Len(sockets) =>
             /\ out'.step = "connectDone" /\ out'.kind = "ok"
             /\ connectInFlight # << >>
             /\ connectInFlight' = Tail(connectInFlight)
             /\ sockets' =
                    Append(sockets, NewSocket(Head(connectInFlight).token))
             /\ negotiated # "none"
       /\ Did(out', FxRequest("start")) =>
             /\ out'.step = "onopen" /\ opens' = opens + 1
             /\ Count(out'.trace, FxRequest("start")) = 1
             /\ \E r \in startInFlight' \ startInFlight :
                    /\ sockets[r.sock].readyState = "CONNECTING"
                    /\ sockets'[r.sock].readyState = "OPEN"
       /\ startInFlight' \ startInFlight # {} => Did(out', FxRequest("start"))
       /\ Did(out', EvConnected) =>
             /\ out'.step = "startDone" /\ out'.kind = "ok"
             /\ \E r \in startInFlight \ startInFlight' :
                    /\ r.sock \in 1..Len(sockets)
                    /\ sockets[r.sock].readyState # "CONNECTING"
             /\ negotiated # "none" /\ opens > 0]_vars

C24_Witness ==
    /\ out.step = "startDone" /\ out.kind = "ok"
    /\ Events(out) = <<EvConnected>>
    /\ starts = 1 /\ negotiates = 2 /\ opens = 1 /\ Len(sockets) = 1

(***************************************************************************)
(* C25: when a push batch is delivered, every item whose (H, M) pair has   *)
(* been registered with on() invokes the callback registered last for the  *)
(* pair, once for each occurrence of the item in the batch, and invokes    *)
(* none of the callbacks registered earlier for the pair.                  *)
(***************************************************************************)
Last(reg) == CHOOSE k \in reg : \A m \in reg : m <= k

InvokedCallbacks(o) == { o.invoked[n][1] : n \in 1..Len(o.invoked) }

C25_LastRegistration ==
    [][\A f \in Frames :
          Delivered(f) =>
              \A i \in 1..Len(f.M) :
                  LET reg == Registered(handlers, f.M[i])
                  IN  reg # {} =>
                        /\ Count(out'.invoked,
                                 <<handlers[Last(reg)].cb, f.M[i].A>>)
                              = Cardinality({ j \in 1..Len(f.M) :
                                                f.M[j] = f.M[i] })
                        /\ \A k \in reg \ {Last(reg)} :
                              handlers[k].cb \notin InvokedCallbacks(out')]_vars

(***************************************************************************)
(* C26: at most one heartbeat timer is armed at any moment, and it is the  *)
(* one the heartbeat handle refers to.                                     *)
(***************************************************************************)
C26_OneHeartbeat ==
    /\ Cardinality(BeatTimers(timers)) <= 1
    /\ \A t \in BeatTimers(timers) : t.id = beatTimer

(***************************************************************************)
(* C27: once _close has closed a transport handle, no event of that handle *)
(* and no completion of a start exchange begun by its open event changes   *)
(* the connection state, posts an event or schedules a timer.              *)
(***************************************************************************)
ClosedByClient(h) == ~sockets[h].attached

Inert ==
    /\ state' = state
    /\ Events(out') = << >>
    /\ ~Armed(out', "beat") /\ ~Armed(out', "reconnect")
    /\ timers' \subseteq timers

C27_ClosedHandleInert ==
    [][/\ \A r \in startInFlight \ startInFlight' :
             (out'.step = "startDone" /\ ClosedByClient(r.sock)) => Inert
       /\ \A h \in SocketIds :
             (/\ ClosedByClient(h)
              /\ out'.step \in {"onopen", "onmessage", "onerror", "onclose"}
              /\ sockets'[h] # sockets[h]) => Inert]_vars

(***************************************************************************)
(* C28: at each heartbeat check, if the time since lastMessageAt exceeds    *)
(* the keep-alive timeout the state becomes Disconnected, a                *)
(* connectLost error is posted, a soft reconnect is pending and the check  *)
(* schedules no heartbeat timer; otherwise the state is unchanged and the  *)
(* check schedules exactly one heartbeat timer.                            *)
(***************************************************************************)
Elapsed == now - lastMessageAt

BeatsArmed(o) ==
    Cardinality({ k \in 1..Len(o.trace) :
                    o.trace[k].type = "setTimeout" /\ o.trace[k].data = "beat" })

C28_HeartbeatCheck ==
    [][out'.step = "beatTimer" =>
          IF Elapsed > keepAliveTimeout
          THEN /\ state' = "disconnected"
               /\ Events(out') = <<EvError("connectLost")>>
               /\ \E t \in ReconnectTimers(timers') : ~t.restart
               /\ BeatsArmed(out') = 0
          ELSE /\ state' = state
               /\ BeatsArmed(out') = 1]_vars

(***************************************************************************)
(* C29: the callback of the reconnect timer increments the attempt         *)
(* counter, sets the state to Reconnecting, posts reconnecting(counter),   *)
(* then issues the negotiate request of a full start (restart mode) or     *)
(* calls _connect (soft mode), and clears the timer handle.  The           *)
(* counter changes in no other way than by this increment and by the reset *)
(* to 0 of a start exchange that succeeds, so the k-th attempt since the   *)
(* last successful start exchange posts reconnecting(k).                   *)
(***************************************************************************)
C29_ReconnectAttempt ==
    [][/\ out'.step = "reconnectTimer" =>
             \E t \in ReconnectTimers(timers) :
                /\ t \notin timers'
                /\ reconnectCount' = reconnectCount + 1
                /\ state' = "reconnecting"
                /\ reconnectTimer' = 0
                /\ IF t.restart
                   THEN /\ out'.trace = << FxState("reconnecting"),
                                           EvReconnecting(reconnectCount + 1),
                                           FxRequest("negotiate") >>
                        /\ negotiates' = negotiates + 1
                        /\ UNCHANGED << sockets, websocket, connectInFlight >>
                   ELSE /\ out'.trace = << FxState("reconnecting"),
                                           EvReconnecting(reconnectCount + 1),
                                           FxConnect(Handles + 1) >>
                        /\ connectInFlight' =
                              Append(connectInFlight,
                                     Waiting(token, "reconnect"))
                        /\ UNCHANGED << negotiates, negotiateInFlight,
                                        sockets, websocket >>
       /\ reconnectCount' # reconnectCount =>
             \/ out'.step = "reconnectTimer"
             \/ /\ out'.step = "startDone" /\ out'.kind = "ok"
                /\ reconnectCount' = 0
       /\ (out'.step = "startDone" /\ out'.kind = "ok") =>
             reconnectCount' = 0
       /\ \A k \in 1..Len(out'.trace) :
             out'.trace[k].type = "reconnecting" =>
                 /\ out'.step = "reconnectTimer"
                 /\ out'.trace[k].n = reconnectCount']_vars

C29_Witness ==
    /\ out.step = "reconnectTimer"
    /\ Events(out) = <<EvReconnecting(2)>>
    /\ reconnectCount = 2 /\ state = "reconnecting" /\ reconnectTimer = 0
    /\ Connects(out) /\ Len(connectInFlight) = 1 /\ Len(sockets) = 2

(***************************************************************************)
(* C30: when a step of the handshake fails, the state is Disconnected when *)
(* the callback returns and exactly one error event is posted, with the    *)
(* code of the failure: for negotiate, unauthorized for 302, 401 and 403,  *)
(* negotiateError for any other failure of the exchange, and               *)
(* unsupportedWebsocket for a body without TryWebSockets; for the start    *)
(* exchange, unauthorized for 302, 401 and 403 and startError otherwise.   *)
(***************************************************************************)
TaxonomyCode(o) ==
    IF o.status \in UnauthorizedStatuses THEN "unauthorized"
    ELSE IF o.step = "startDone" THEN "startError"
    ELSE IF o.status = 200 THEN "unsupportedWebsocket"
    ELSE "negotiateError"

HandshakeFailed(o) ==
    \/ o.step = "negotiateDone" /\ (o.status # 200 \/ ~o.body.TryWebSockets)
    \/ o.step = "startDone" /\ o.kind # "ok"

C30_HandshakeFailure ==
    HandshakeFailed(out) =>
        /\ state = "disconnected"
        /\ Events(out) = <<EvError(TaxonomyCode(out))>>

(***************************************************************************)
(* C31: every close event the client handles sets the call-timeout         *)
(* override to 1000 ms, every open event resets it to 0, and nothing else  *)
(* changes it; the timer of a call is armed with the override when it is   *)
(* not 0 and with the configured callTimeout (5000 ms) otherwise.          *)
(***************************************************************************)
C31_CallTimeoutOverride ==
    [][/\ out'.step = "onclose" => callTimeoutOv' = 1000
       /\ out'.step = "onopen" => callTimeoutOv' = 0
       /\ callTimeoutOv' # callTimeoutOv => out'.step \in {"onclose", "onopen"}
       /\ out'.step = "call" =>
             /\ Len(calls') = Len(calls) + 1
             /\ calls'[Len(calls')].timer = "armed"
             /\ calls'[Len(calls')].delay =
                    IF callTimeoutOv # 0 THEN callTimeoutOv ELSE 5000]_vars

C31_Witness ==
    /\ out.step = "call" /\ Len(calls) = 2
    /\ calls[1].kind = "call" /\ calls[1].delay = 5000
    /\ calls[2].kind = "call" /\ calls[2].delay = 1000
    /\ callTimeoutOv = 1000

(***************************************************************************)
(* C32: invoke consumes one correlation id and registers no entry; the     *)
(* delivery of a response frame carrying the id of an invoke whose         *)
(* envelope went out on the open transport settles no promise and leaves   *)
(* the registry of pending calls (entries and timers) unchanged.           *)
(***************************************************************************)
AnswersInvoke(o) ==
    /\ o.step = "onmessage" /\ o.frame = "response"
    /\ \E i \in 1..Len(calls) :
          /\ calls[i].kind = "invoke" /\ calls[i].sent
          /\ calls[i].epoch = opens /\ calls[i].inv = o.id

C32_InvokeUnregistered ==
    [][/\ out'.step = "invoke" =>
             /\ invocationId' = invocationId + 1
             /\ callbacks' = callbacks
             /\ calls' = Append(calls, NewCall(Cur, "invoke"))
       /\ AnswersInvoke(out') =>
             /\ callbacks' = callbacks
             /\ calls' = calls]_vars

(***************************************************************************)
(* C33: the handle asked for by the callback that read a successful        *)
(* negotiate response carries the token of that response, which is also    *)
(* the token the client then holds; a soft reconnect issues no negotiate   *)
(* and asks for its handle with the token the client holds; a handle is    *)
(* created with the token of the call it answers, and none with a token    *)
(* that no negotiate response issued; every start request carries the      *)
(* token the client holds; and only the reading of a negotiate response    *)
(* changes the token.  (The server answers negotiate request n with token  *)
(* n; 0 is the undefined token.)                                           *)
(***************************************************************************)
NewConnect == connectInFlight'[Len(connectInFlight')].token

NewHandle == sockets'[Len(sockets')]

C33_TokenOfNegotiate ==
    [][/\ (Connects(out') /\ out'.step = "negotiateDone") =>
             \E n \in negotiateInFlight \ negotiateInFlight' :
                 NewConnect = n /\ token' = n
       /\ (Connects(out') /\ out'.step = "reconnectTimer") =>
             /\ NewConnect = token /\ token' = token
             /\ negotiates' = negotiates
       /\ Len(sockets') > Len(sockets) =>
             /\ NewHandle.token = Head(connectInFlight).token
             /\ NewHandle.token \in 1..negotiates
       /\ \A r \in startInFlight' \ startInFlight : r.token = token'
       /\ token' # token => out'.step = "negotiateDone"]_vars

(***************************************************************************)
(* C34: when a response frame {I: id} is delivered while the call that was *)
(* sent with that id on the open transport is pending with its timer       *)
(* armed, the timer is cancelled, the entry is removed and the promise is  *)
(* settled: rejected when the frame has an E, resolved otherwise.  This    *)
(* for every id, 0 included.                                               *)
(***************************************************************************)
ResponseDelivered(f) ==
    /\ ~f.hasM /\ f.raw = "json"
    /\ out'.step = "onmessage"
    /\ LET r == receiveMessage(
                    [Begin("onmessage") EXCEPT !.out.frame = FrameKind(f),
                                               !.out.id = f.I], f)
       IN  out' = r.out /\ calls' = r.calls /\ callbacks' = r.callbacks

AwaitsResponse(i, id) ==
    /\ calls[i].kind = "call" /\ calls[i].sent /\ calls[i].epoch = opens
    /\ calls[i].inv = id /\ callbacks[id] = i
    /\ calls[i].timer = "armed" /\ calls[i].settled = "pending"

C34_ResponseSettles ==
    [][\A f \in Frames : \A i \in 1..Len(calls) :
          (ResponseDelivered(f) /\ AwaitsResponse(i, f.I)) =>
              /\ calls'[i].timer = "cleared"
              /\ callbacks'[f.I] = 0
              /\ calls'[i].settled =
                     IF f.E # "" THEN "rejected" ELSE "resolved"
              /\ calls'[i].by = "response"]_vars

(***************************************************************************)
(* C35: whenever the connection state is Connected the transport reference *)
(* is set and the handle it refers to has not been closed by _close.       *)
(***************************************************************************)
C35_ConnectedHasTransport ==
    state = "connected" =>
        /\ websocket # 0
        /\ sockets[websocket].attached
        /\ sockets[websocket].readyState # "CLOSED"

(***************************************************************************)
(* C36: the entry of a call leaves the registry only in the callback of    *)
(* that call's own timeout or in the delivery of a response carrying its   *)
(* id; in particular the timeout of an earlier call neither removes the    *)
(* entry of a later call nor changes that call.                            *)
(***************************************************************************)
HasEntry(cb, j) == cb[calls[j].inv] = j

C36_OwnEntryOnly ==
    [][\A j \in 1..Len(calls) :
          /\ (HasEntry(callbacks, j) /\ ~HasEntry(callbacks', j)) =>
                \/ out'.step = "callTimeout" /\ out'.id = j
                \/ /\ out'.step = "onmessage" /\ out'.frame = "response"
                   /\ out'.id = calls[j].inv
          /\ \A i \in 1..(j - 1) :
                (out'.step = "callTimeout" /\ out'.id = i) =>
                    /\ HasEntry(callbacks, j) => HasEntry(callbacks', j)
                    /\ calls'[j] = calls[j]]_vars

(***************************************************************************)
(* C37: while a reconnect timer is pending the state is not Connected and  *)
(* no heartbeat timer is active.                                           *)
(***************************************************************************)
C37_ReconnectPendingQuiet ==
    ReconnectTimers(timers) # {} =>
        /\ state # "connected"
        /\ BeatTimers(timers) = {}

(***************************************************************************)
(* C38: a new transport handle is installed only when no other handle is   *)
(* live; whenever the handle reference is replaced the previous handle has *)
(* been closed and detached; at most one handle with live handlers exists. *)
(***************************************************************************)
LiveHandles(ss) ==
    { h \in 1..Len(ss) : ss[h].attached /\ ss[h].readyState # "CLOSED" }

C38_SingleLiveHandle ==
    [][/\ Len(sockets') > Len(sockets) => LiveHandles(sockets) = {}
       /\ (websocket # 0 /\ websocket' # websocket) =>
              /\ ~sockets'[websocket].attached
              /\ sockets'[websocket].readyState = "CLOSED"
       /\ Cardinality(LiveHandles(sockets')) <= 1]_vars

(***************************************************************************)
(* The timers of the runtime fire: a timeout armed by setTimeout and not   *)
(* cleared eventually runs its callback.  CallTimers is the specification  *)
(* in which this holds for the timeout timers armed by Hub.call.  Its runs *)
(* are                                                                     *)
(*   settle    one handshake whose negotiate succeeds, one reconnection,   *)
(*             end(), a call and its response                              *)
(*   watch     one handshake, one call, a handler, the clock               *)
(***************************************************************************)
SettleCalls == MaxCalls - 3

SettleRuns ==
    { Limits("settle", {MainConfig}, MaxStarts - 1, MaxEnds, MaxNegotiates - 1,
             MaxSockets - 1, SettleCalls, 0, 0),
      Limits("watch", {MainConfig}, MaxStarts - 1, 0, MaxNegotiates - 1,
             MaxSockets - 2, SettleCalls, MaxOn - 1, MaxTicks - 1) }

CallTimers == InitOf(SettleRuns) /\ [][Next]_vars /\ WF_vars(CallTimeoutFire)

(***************************************************************************)
(* LateCalls is the specification of the runs in which calls are made on   *)
(* two transports in turn.  Its runs are                                   *)
(*   late      one handshake whose negotiate and start exchanges succeed,  *)
(*             one reconnection, calls on both transports, their timeouts  *)
(*             and responses                                               *)
(* and the runs of CallTimers.                                             *)
(***************************************************************************)
LateRuns ==
    { CallsOnly(Limits("late", {MainConfig}, MaxStarts - 1, 0,
                       MaxNegotiates - 1, MaxSockets - 1, MaxCalls, 0, 0)) }

LateCalls == InitOf(LateRuns \cup SettleRuns) /\ [][Next]_vars

(***************************************************************************)
(* C39: every promise returned by call is eventually settled, whatever the *)
(* connection does in the meantime.                                        *)
(***************************************************************************)
Pending(i) == i <= Len(calls) /\ calls[i].settled = "pending"

Settled(i) == i <= Len(calls) /\ calls[i].settled \in {"resolved", "rejected"}

C39_CallSettles == \A i \in 1..SettleCalls : Pending(i) ~> Settled(i)

C39_Witness ==
    /\ out.step = "callTimeout" /\ out.id = 1
    /\ calls[1].sent /\ calls[1].epoch = 1
    /\ calls[1].settled = "rejected" /\ calls[1].by = "timeout"
    /\ ends = 1 /\ websocket = 0

(***************************************************************************)
(* Recovery is the specification of the runs in which what is pending is   *)
(* eventually dealt with: an armed reconnect timer fires, the promise a    *)
(* _connect waits for settles, a handle that is connecting opens, a        *)
(* negotiate exchange completes and a start exchange completes (the last   *)
(* one is stated on the set of pending exchanges).  Nothing is assumed of  *)
(* the outcome of an exchange or of createSocketConnection.  Its runs are  *)
(*   recover   one start(), reconnections, the clock, no end()             *)
(* and the runs of CallTimers.                                             *)
(***************************************************************************)
RecoverRuns ==
    { Limits("recover", {MainConfig}, MaxStarts - 1, 0, MaxNegotiates,
             MaxSockets, 0, 0, MaxTicks) }

Recovery ==
    /\ InitOf(RecoverRuns \cup SettleRuns) /\ [][Next]_vars
    /\ WF_vars(ReconnectFire) /\ WF_vars(WsOpen) /\ WF_vars(NegotiateDone)
    /\ WF_vars(ConnectDone)
    /\ []<>(startInFlight = {})

\* a step in which no negotiate exchange, creation of a handle, start
\* exchange or transport open fails
Succeeds ==
    /\ out'.step = "negotiateDone" =>
          /\ out'.kind = "ok"
          /\ out'.body.TryWebSockets /\ out'.body.tokenIsString
    /\ out'.step = "connectDone" => out'.kind = "ok"
    /\ out'.step = "startDone" => out'.kind = "ok"
    /\ out'.step = "onclose" =>
          \E h \in SocketIds : /\ sockets[h].readyState = "OPEN"
                               /\ sockets'[h].readyState = "CLOSED"
    /\ out'.step # "onerror"

\* the last exchange was answered 302, 401 or 403
Refused ==
    /\ out.step \in {"negotiateDone", "startDone"}
    /\ out.status \in UnauthorizedStatuses

\* the run has used up the handles or the negotiate requests it may make
Blocked ==
    \/ \E t \in ReconnectTimers(timers) :
          IF t.restart THEN negotiates >= lim.negotiates
                       ELSE Handles >= lim.sockets
    \/ negotiateInFlight # {} /\ Handles >= lim.sockets

HeartbeatLost ==
    /\ out.step = "beatTimer"
    /\ \E k \in 1..Len(out.trace) : out.trace[k] = EvError("connectLost")

\* the transport closed in state Connected and a recovery was scheduled, or
\* the heartbeat check found the connection lost (it acts only in Connected)
LostWhileConnected ==
    \/ /\ out.step = "onclose"
       /\ \E t \in ReconnectTimers(timers) : t.drop /\ t.id = reconnectTimer
    \/ HeartbeatLost

(***************************************************************************)
(* C40: after a transport close or a heartbeat loss in state Connected, if *)
(* end() is not called and from some point on every negotiate exchange,    *)
(* transport open and start exchange succeeds, the state is eventually     *)
(* Connected again (or the run has used up its handles).  The answers 302, *)
(* 401 and 403, for which the error table prescribes no recovery, are set  *)
(* aside: the property is stated for the runs without them.                *)
(***************************************************************************)
C40_Recovers ==
    ([](ends = 0) /\ []~Refused /\ <>[][Succeeds]_vars) =>
        (LostWhileConnected ~> (state = "connected" \/ Blocked))

====
